---- MODULE Spec2Model ----
(***************************************************************************)
(* Model of tools/validate_skills.py: discovery of skill directories,      *)
(* front-matter parsing, static validation, the exec-mode script contract  *)
(* runner and the report aggregator.                                       *)
(*                                                                         *)
(* Python strings that the code inspects character by character (skill     *)
(* names, directory names, descriptions) are sequences of one-character    *)
(* strings.  An optional value (str | None) is <<>> for None and <<v>> for *)
(* a present value v.                                                      *)
(***************************************************************************)
EXTENDS Integers, Sequences, FiniteSets, TLC

(***************************************************************************)
(* Bounds of the model                                                     *)
(***************************************************************************)
\* largest number of SKILL.md files in a tree of the metadata slice
MaxSkills == 3

(***************************************************************************)
(* Program constants                                                       *)
(***************************************************************************)
EXIT_PRECONDITION == 3
MAX_DESCRIPTION_LENGTH == 500
MAX_NAME_LENGTH == 64
\* the slice bound of proc.stderr.strip()[:400]
STDERR_LIMIT == 400

None == <<>>
Some(v) == <<v>>
IsNone(o) == o = <<>>
Get(o) == o[1]

(***************************************************************************)
(* Strings                                                                 *)
(***************************************************************************)
CURATED == <<".", "c", "u", "r", "a", "t", "e", "d">>
EXPERIMENTAL == <<".", "e", "x", "p", "e", "r", "i", "m", "e", "n", "t", "a", "l">>
PYCACHE == <<"_", "_", "p", "y", "c", "a", "c", "h", "e", "_", "_">>
UNKNOWN == <<"u", "n", "k", "n", "o", "w", "n">>

Lower == {"a", "b", "c", "d", "e", "f", "h", "i", "k", "l", "m", "n", "o", "p",
          "r", "s", "t", "u", "w", "x", "y"}
Digits == {"0", "1"}
Whitespace == {" ", "\n"}

\* code point order of the characters the model uses (str comparison)
Code(c) ==
    CASE c = "\n" -> 10 [] c = " " -> 32 [] c = "-" -> 45 [] c = "." -> 46
      [] c = "/" -> 47 [] c = "0" -> 48 [] c = "1" -> 49 [] c = "B" -> 66
      [] c = "D" -> 68 [] c = "I" -> 73 [] c = "K" -> 75 [] c = "L" -> 76
      [] c = "M" -> 77 [] c = "S" -> 83 [] c = "_" -> 95
      [] c = "a" -> 97 [] c = "b" -> 98 [] c = "c" -> 99 [] c = "d" -> 100
      [] c = "e" -> 101 [] c = "f" -> 102 [] c = "h" -> 104 [] c = "i" -> 105 [] c = "k" -> 107
      [] c = "l" -> 108 [] c = "m" -> 109 [] c = "n" -> 110 [] c = "o" -> 111
      [] c = "p" -> 112 [] c = "r" -> 114 [] c = "s" -> 115 [] c = "t" -> 116
      [] c = "u" -> 117
      [] c = "w" -> 119 [] c = "x" -> 120 [] c = "y" -> 121

\* s < t for two Python strings
RECURSIVE StrLess(_, _)
StrLess(s, t) ==
    IF t = <<>> THEN FALSE
    ELSE IF s = <<>> THEN TRUE
    ELSE IF Head(s) = Head(t) THEN StrLess(Tail(s), Tail(t))
    ELSE Code(Head(s)) < Code(Head(t))

\* p < q for two paths, compared part by part
RECURSIVE PathLess(_, _)
PathLess(p, q) ==
    IF q = <<>> THEN FALSE
    ELSE IF p = <<>> THEN TRUE
    ELSE IF Head(p) = Head(q) THEN PathLess(Tail(p), Tail(q))
    ELSE StrLess(Head(p), Head(q))

\* str.strip()
RECURSIVE LStrip(_)
LStrip(s) ==
    IF s # <<>> /\ Head(s) \in Whitespace THEN LStrip(Tail(s)) ELSE s

RECURSIVE RStrip(_)
RStrip(s) ==
    IF s # <<>> /\ s[Len(s)] \in Whitespace
    THEN RStrip(SubSeq(s, 1, Len(s) - 1)) ELSE s

Strip(s) == RStrip(LStrip(s))

\* sub in s
Contains(s, sub) ==
    \E i \in 1..(Len(s) - Len(sub) + 1) : SubSeq(s, i, i + Len(sub) - 1) = sub

\* s.replace(old, new) for single characters
Replace(s, old, new) == [i \in 1..Len(s) |-> IF s[i] = old THEN new ELSE s[i]]

\* s[:n]
Prefix(s, n) == SubSeq(s, 1, IF Len(s) < n THEN Len(s) ELSE n)

(***************************************************************************)
(* Skill names                                                             *)
(***************************************************************************)
\* AGENT_SKILLS_NAME_RE.match(name): ^[a-z0-9]+(?:-[a-z0-9]+)*$
\* ($ also matches just before one trailing newline)
NameChar(c) == c \in Lower \cup Digits

RECURSIVE MatchRuns(_, _)
\* inRun: at least one [a-z0-9] of the current run has been consumed
MatchRuns(s, inRun) ==
    IF s = <<>> THEN inRun
    ELSE IF s = <<"\n">> THEN inRun
    ELSE IF NameChar(Head(s)) THEN MatchRuns(Tail(s), TRUE)
    ELSE IF Head(s) = "-" THEN inRun /\ MatchRuns(Tail(s), FALSE)
    ELSE FALSE

AGENT_SKILLS_NAME_RE(name) == MatchRuns(name, FALSE)

\* the error message, or None
validate_skill_name(name) ==
    IF ~(1 <= Len(name) /\ Len(name) <= MAX_NAME_LENGTH)
    THEN Some("skill name must be 1-64 characters")
    ELSE IF ~AGENT_SKILLS_NAME_RE(name)
    THEN Some("skill name must match ^[a-z0-9]+(?:-[a-z0-9]+)* (lowercase/digits/hyphens)")
    ELSE IF Contains(name, <<"-", "-">>)
    THEN Some("skill name must not contain consecutive hyphens ('--')")
    ELSE None

test_filename_for_skill(name) ==
    <<"t", "e", "s", "t", "_">> \o Replace(name, "-", "_") \o <<".", "p", "y">>

(***************************************************************************)
(* SKILL.md: lines of the descriptor                                       *)
(*   delim : a line whose strip() is "---"                                 *)
(*   blank : an empty line                                                 *)
(*   kv    : "<key>: <val>", val plain (q = "plain") or double quoted      *)
(*   text  : a line of prose without a colon                               *)
(*   bad   : "tags: [a", an unclosed flow sequence                         *)
(***************************************************************************)
Delim == [k |-> "delim", key |-> "", val |-> <<>>, q |-> ""]
Blank == [k |-> "blank", key |-> "", val |-> <<>>, q |-> ""]
TextLine == [k |-> "text", key |-> "", val |-> <<>>, q |-> ""]
BadLine == [k |-> "bad", key |-> "tags", val |-> <<>>, q |-> ""]
KV(key, val) == [k |-> "kv", key |-> key, val |-> val, q |-> "plain"]
KVQ(key, val) == [k |-> "kv", key |-> key, val |-> val, q |-> "dq"]
\* "  key: val", an indented line below a line "parent:" without a value
Nested(key, val) == [k |-> "nested", key |-> key, val |-> val, q |-> "plain"]

\* without a closing line the block runs to the end of the file
extract_frontmatter_text_OpenEnd(lines) ==
    IF lines = <<>> \/ lines[1].k # "delim"
    THEN [text |-> None, error |-> Some("missing YAML frontmatter start line '---'")]
    ELSE LET ends == {i \in 2..Len(lines) : lines[i].k = "delim"} \cup {Len(lines) + 1}
             end_idx == CHOOSE i \in ends : \A j \in ends : i <= j
         IN [text |-> Some(SubSeq(lines, 2, end_idx - 1)), error |-> None]

\* (yaml_text, error): yaml_text is the list of lines that "\n".join glues
extract_frontmatter_text(lines) ==
    IF lines = <<>> \/ lines[1].k # "delim"
    THEN [text |-> None, error |-> Some("missing YAML frontmatter start line '---'")]
    ELSE LET ends == {i \in 2..Len(lines) : lines[i].k = "delim"}
         IN IF ends = {}
            THEN [text |-> None, error |-> Some("missing YAML frontmatter end line '---'")]
            ELSE LET end_idx == CHOOSE i \in ends : \A j \in ends : i <= j
                 IN [text |-> Some(SubSeq(lines, 2, end_idx - 1)), error |-> None]

\* the text of a value as it stands in the file
RawValue(ln) == IF ln.q = "dq" THEN <<"\"">> \o ln.val \o <<"\"">> ELSE ln.val

RECURSIVE Flat(_, _, _)
\* the concatenation of parts[lo..hi]
Flat(parts, lo, hi) ==
    IF lo > hi THEN <<>>
    ELSE IF lo = hi THEN parts[lo]
    ELSE Flat(parts, lo, (lo + hi) \div 2) \o Flat(parts, (lo + hi) \div 2 + 1, hi)

\* "".join(parts)
Flatten(parts) == Flat(parts, 1, Len(parts))

\* the number of backslashes that stand right before position i
Backslashes(s, i) ==
    LET runs == {k \in 0..(i - 1) : \A j \in (i - k)..(i - 1) : s[j] = "\\"}
    IN CHOOSE k \in runs : \A m \in runs : m <= k

\* the content of a double-quoted scalar: \\ , \" and \n are escapes, so a
\* character after an odd number of backslashes is an escaped one
Unescape(s) ==
    Flatten([i \in 1..Len(s) |->
        IF Backslashes(s, i) % 2 = 1
        THEN <<(IF s[i] = "n" THEN "\n" ELSE s[i])>>
        ELSE IF s[i] = "\\" /\ i < Len(s) THEN <<>>
        ELSE <<s[i]>>])

\* plain scalars that the YAML 1.1 resolver of PyYAML types (lower-case
\* spellings; the model has no plain scalar with a capital, a dot or a colon)
YamlNull == {<<"n", "u", "l", "l">>, <<"~">>}
YamlTrue == {<<"y", "e", "s">>, <<"t", "r", "u", "e">>, <<"o", "n">>}
YamlFalse == {<<"n", "o">>, <<"f", "a", "l", "s", "e">>, <<"o", "f", "f">>}

DigitChar == <<"0", "1", "2", "3", "4", "5", "6", "7", "8", "9">>
DigitVal(c) == CHOOSE n \in 0..9 : DigitChar[n + 1] = c

RECURSIVE BaseVal(_, _, _)
\* int(digits, base), acc the value of the digits read
BaseVal(s, base, acc) ==
    IF s = <<>> THEN acc ELSE BaseVal(Tail(s), base, acc * base + DigitVal(Head(s)))

RECURSIVE Decimal(_)
\* str(n) of an int n >= 0
Decimal(n) ==
    IF n < 10 THEN <<DigitChar[n + 1]>>
    ELSE Decimal(n \div 10) \o <<DigitChar[(n % 10) + 1]>>

\* 0 | [1-9][0-9]* is a decimal int, 0[0-7]+ an octal one
YamlIsInt(s) ==
    /\ s # <<>>
    /\ \A i \in 1..Len(s) : s[i] \in Digits
YamlInt(s) ==
    IF Len(s) > 1 /\ Head(s) = "0" THEN BaseVal(Tail(s), 8, 0) ELSE BaseVal(s, 10, 0)

\* the Python value yaml.safe_load gives the scalar of a line "key: ...":
\* t its type and v its str(); a plain scalar is stripped, null when empty
YamlScalar(ln) ==
    IF ln.q = "dq" THEN [t |-> "str", v |-> Unescape(ln.val)]
    ELSE LET s == Strip(ln.val)
         IN IF s = <<>> \/ s \in YamlNull THEN [t |-> "null", v |-> <<>>]
            ELSE IF s \in YamlTrue THEN [t |-> "bool", v |-> <<"T", "r", "u", "e">>]
            ELSE IF s \in YamlFalse
            THEN [t |-> "bool", v |-> <<"F", "a", "l", "s", "e">>]
            ELSE IF YamlIsInt(s) THEN [t |-> "int", v |-> Decimal(YamlInt(s))]
            ELSE [t |-> "str", v |-> s]

\* data.get(key) of the mapping: the last line "key: ..." wins
YamlLoad(block, key) ==
    LET idx == {i \in 1..Len(block) : block[i].k = "kv" /\ block[i].key = key}
    IN IF idx = {} THEN [t |-> "null", v |-> <<>>]
       ELSE YamlScalar(block[CHOOSE i \in idx : \A j \in idx : j <= i])

\* str(value) if value is not None else None
YamlValue(x) == IF x.t = "null" THEN None ELSE Some(x.v)

YamlGet(block, key) == YamlValue(YamlLoad(block, key))

Result(name, desc, err) == [name |-> name, desc |-> desc, err |-> err]

parse_yaml_frontmatter(block) ==
    LET content == {i \in 1..Len(block) : block[i].k # "blank"}
    IN IF \E i \in content : block[i].k = "bad"
       THEN Result(None, None, Some("frontmatter YAML could not be parsed"))
       ELSE IF content # {} /\ \A i \in content : block[i].k = "text"
       THEN Result(None, None, Some("frontmatter YAML must be a mapping/object"))
       ELSE IF \E i \in content : block[i].k = "text"
       THEN Result(None, None, Some("frontmatter YAML could not be parsed"))
       ELSE Result(YamlGet(block, "name"), YamlGet(block, "description"), None)

RECURSIVE LStripChar(_, _)
LStripChar(s, c) == IF s # <<>> /\ Head(s) = c THEN LStripChar(Tail(s), c) ELSE s

RECURSIVE RStripChar(_, _)
RStripChar(s, c) ==
    IF s # <<>> /\ s[Len(s)] = c THEN RStripChar(SubSeq(s, 1, Len(s) - 1), c) ELSE s

\* s.strip(c)
StripChar(s, c) == RStripChar(LStripChar(s, c), c)

\* value.strip().strip('"').strip("'") of the last line "key: ..."
MinimalGet(block, key) ==
    LET idx == {i \in 1..Len(block) :
                   block[i].k \in {"kv", "bad", "nested"} /\ block[i].key = key}
    IN IF idx = {} THEN None
       ELSE LET ln == block[CHOOSE i \in idx : \A j \in idx : j <= i]
            IN Some(StripChar(StripChar(Strip(RawValue(ln)), "\""), "'"))

parse_minimal_frontmatter(block) ==
    LET name == MinimalGet(block, "name")
        desc == MinimalGet(block, "description")
    IN IF IsNone(name) \/ IsNone(desc)
       THEN Result(name, desc, Some("failed to parse frontmatter (install PyYAML)"))
       ELSE Result(name, desc, None)

\* md.lines of a decodable SKILL.md
parse_frontmatter_block(md, yaml_installed) ==
    LET fm == extract_frontmatter_text(md.lines)
    IN IF ~IsNone(fm.error) THEN Result(None, None, fm.error)
       ELSE IF yaml_installed THEN parse_yaml_frontmatter(Get(fm.text))
       ELSE parse_minimal_frontmatter(Get(fm.text))

(***************************************************************************)
(* Paths.  A path is the sequence of its parts below the repository root;  *)
(* str(path) joins them with "/" (the absolute prefix, the same for every  *)
(* path of a run, is left out).                                            *)
(***************************************************************************)
SKILLS == <<"s", "k", "i", "l", "l", "s">>
TESTS == <<"t", "e", "s", "t", "s">>
SKILL_MD == <<"S", "K", "I", "L", "L", ".", "m", "d">>
SCRIPTS == <<"s", "c", "r", "i", "p", "t", "s">>
RUN_PY == <<"r", "u", "n", ".", "p", "y">>
REFERENCES == <<"r", "e", "f", "e", "r", "e", "n", "c", "e", "s">>
ASSETS == <<"a", "s", "s", "e", "t", "s">>

\* ns.skills_root, resolved below the repository root (the default "skills")
skills_root == <<SKILLS>>

RECURSIVE PathStr(_)
PathStr(parts) ==
    IF parts = <<>> THEN <<".">>
    ELSE IF Len(parts) = 1 THEN parts[1]
    ELSE parts[1] \o <<"/">> \o PathStr(Tail(parts))

\* skill_dir.relative_to(skills_root)
RelativeTo(path, root) == SubSeq(path, Len(root) + 1, Len(path))

PathName(path) == path[Len(path)]

detect_tier(root, skill_dir) ==
    LET rel == RelativeTo(skill_dir, root)
    IN IF rel # <<>> THEN rel[1] ELSE UNKNOWN

(***************************************************************************)
(* Issues.  A message is the sequence of the fragments of its f-string:    *)
(* a literal fragment is one string, a formatted str value contributes its *)
(* characters, a formatted int its decimal digits (ToString).              *)
(***************************************************************************)
Issue(level, path, message) ==
    [level |-> level, path |-> PathStr(path), message |-> message]

\* add_issue appends; the validators below return the issues they add
MismatchMsg(name, dir_name) ==
    <<"frontmatter name '">> \o name \o <<"' must match directory '">>
        \o dir_name \o <<"'">>

DuplicateMsg(name, first_dir) ==
    <<"duplicate skill name '">> \o name \o <<"' also at ">> \o PathStr(first_dir)

NoSeen == [n \in {} |-> <<>>]

\* seen_names[name] = skill_dir
Register(seen_names, name, skill_dir) ==
    [n \in DOMAIN seen_names \cup {name} |->
        IF n = name THEN skill_dir ELSE seen_names[n]]

\* a name that is already registered replaces its directory
SeenAfter_Overwrite(seen_names, name, skill_dir) ==
    Register(seen_names, name, skill_dir)

\* only a name that equals the name of its directory is registered
SeenAfter_MatchingOnly(seen_names, name, skill_dir) ==
    IF name \in DOMAIN seen_names \/ name # PathName(skill_dir) THEN seen_names
    ELSE Register(seen_names, name, skill_dir)

\* seen_names after the duplicate check of a declared name
SeenAfter(seen_names, name, skill_dir) ==
    IF name \in DOMAIN seen_names THEN seen_names
    ELSE Register(seen_names, name, skill_dir)

\* the name checks without the comparison with the directory name
NameIssues_NoMismatch(skill_md, name, dir_name, seen_names) ==
    (IF ~IsNone(validate_skill_name(name))
     THEN <<Issue("error", skill_md, <<Get(validate_skill_name(name))>>)>>
     ELSE <<>>)
    \o (IF name \in DOMAIN seen_names
        THEN <<Issue("error", skill_md, DuplicateMsg(name, seen_names[name]))>>
        ELSE <<>>)

\* the name checks of validate_metadata for a declared name
NameIssues(skill_md, name, dir_name, seen_names) ==
    (IF name # dir_name
     THEN <<Issue("error", skill_md, MismatchMsg(name, dir_name))>> ELSE <<>>)
    \o (IF ~IsNone(validate_skill_name(name))
        THEN <<Issue("error", skill_md, <<Get(validate_skill_name(name))>>)>>
        ELSE <<>>)
    \o (IF name \in DOMAIN seen_names
        THEN <<Issue("error", skill_md, DuplicateMsg(name, seen_names[name]))>>
        ELSE <<>>)

\* a very long description is an error
DescIssues_LongError(skill_md, desc) ==
    (IF Strip(desc) = <<>>
     THEN <<Issue("error", skill_md, <<"description must be non-empty">>)>>
     ELSE <<>>)
    \o (IF Contains(desc, <<"\n">>)
        THEN <<Issue("warning", skill_md,
                     <<"description should be single-line for better triggering">>)>>
        ELSE <<>>)
    \o (IF Len(desc) > MAX_DESCRIPTION_LENGTH
        THEN <<Issue("error", skill_md,
                     <<"description is very long (>500 chars); consider shortening">>)>>
        ELSE <<>>)

\* the description checks of validate_metadata for a declared description
DescIssues(skill_md, desc) ==
    (IF Strip(desc) = <<>>
     THEN <<Issue("error", skill_md, <<"description must be non-empty">>)>>
     ELSE <<>>)
    \o (IF Contains(desc, <<"\n">>)
        THEN <<Issue("warning", skill_md,
                     <<"description should be single-line for better triggering">>)>>
        ELSE <<>>)
    \o (IF Len(desc) > MAX_DESCRIPTION_LENGTH
        THEN <<Issue("warning", skill_md,
                     <<"description is very long (>500 chars); consider shortening">>)>>
        ELSE <<>>)

\* issues added, the new seen_names, and the returned (name, desc)
validate_metadata(md, skill_dir, seen_names, yaml_installed) ==
    LET skill_md == Append(skill_dir, SKILL_MD)
        fm == parse_frontmatter_block(md, yaml_installed)
        dir_name == PathName(skill_dir)
    IN [issues |->
            (IF ~IsNone(fm.err) THEN <<Issue("error", skill_md, <<Get(fm.err)>>)>>
             ELSE <<>>)
            \o (IF IsNone(fm.name)
                THEN <<Issue("error", skill_md, <<"frontmatter must include 'name'">>)>>
                ELSE NameIssues(skill_md, Get(fm.name), dir_name, seen_names))
            \o (IF IsNone(fm.desc)
                THEN <<Issue("error", skill_md,
                             <<"frontmatter must include 'description'">>)>>
                ELSE DescIssues(skill_md, Get(fm.desc))),
        seen_names |->
            IF IsNone(fm.name) THEN seen_names
            ELSE SeenAfter(seen_names, Get(fm.name), skill_dir),
        name |-> fm.name,
        desc |-> fm.desc]

\* an absent assets/ directory is reported like an absent references/
validate_directories_AssetsAbsent(skill_dir, refs, assets) ==
    (IF refs = "absent"
     THEN <<Issue("warning", skill_dir, <<"missing references/ directory (recommended)">>)>>
     ELSE IF refs = "empty"
     THEN <<Issue("warning", Append(skill_dir, REFERENCES),
                  <<"references/ is empty (add README.md at least)">>)>>
     ELSE <<>>)
    \o (IF assets \in {"absent", "empty"}
        THEN <<Issue("warning", Append(skill_dir, ASSETS),
                     <<"assets/ is empty (ok, but usually include README.md)">>)>>
        ELSE <<>>)

\* refs, assets: "absent", "empty", "nonempty" (directories) or "file"
validate_directories(skill_dir, refs, assets) ==
    (IF refs = "absent"
     THEN <<Issue("warning", skill_dir, <<"missing references/ directory (recommended)">>)>>
     ELSE IF refs = "empty"
     THEN <<Issue("warning", Append(skill_dir, REFERENCES),
                  <<"references/ is empty (add README.md at least)">>)>>
     ELSE <<>>)
    \o (IF assets = "empty"
        THEN <<Issue("warning", Append(skill_dir, ASSETS),
                     <<"assets/ is empty (ok, but usually include README.md)">>)>>
        ELSE <<>>)

\* Path.iterdir() of a regular file raises NotADirectoryError, and
\* read_text raises on a SKILL.md that is not UTF-8 (or not a regular file)
DirectoriesRaise(refs, assets) == refs = "file" \/ assets = "file"

\* run.py is not looked for
find_entry_script_AnyScripts(skill_dir, scripts) ==
    IF scripts # "absent" THEN Some(skill_dir \o <<SCRIPTS, RUN_PY>>) ELSE None

\* scripts: "absent", "norun" (scripts/ without run.py), "run"
find_entry_script(skill_dir, scripts) ==
    IF scripts = "run" THEN Some(skill_dir \o <<SCRIPTS, RUN_PY>>) ELSE None

MissingTestMsg(file_name) ==
    <<"missing test file for script-backed skill: ">> \o file_name

\* the tier is compared with the name without its leading dot
validate_tests_NoDot(test_files, tier, skill_dir, entry) ==
    IF IsNone(entry) THEN <<>>
    ELSE LET name == test_filename_for_skill(PathName(skill_dir))
         IN IF name \notin test_files
            THEN <<Issue(IF tier = Tail(CURATED) THEN "error" ELSE "warning",
                         <<TESTS, SKILLS, name>>, MissingTestMsg(name))>>
            ELSE <<>>

\* test_files: the names of the files in <repo_root>/tests/skills
validate_tests(test_files, tier, skill_dir, entry) ==
    IF IsNone(entry) THEN <<>>
    ELSE LET name == test_filename_for_skill(PathName(skill_dir))
         IN IF name \notin test_files
            THEN <<Issue(IF tier = CURATED THEN "error" ELSE "warning",
                         <<TESTS, SKILLS, name>>, MissingTestMsg(name))>>
            ELSE <<>>

(***************************************************************************)
(* Exec mode: the script contract.                                         *)
(* A finished subprocess is [returncode, stdout, stderr]; stdout is        *)
(*   [kind |-> "empty"]     nothing but whitespace                         *)
(*   [kind |-> "invalid"]   text that json.loads rejects                   *)
(*   [kind |-> "extra"]     a JSON object followed by more text, which     *)
(*                          json.loads rejects ("Extra data")              *)
(*   [kind |-> "nonobject"] a JSON value that is not an object             *)
(*   [kind |-> "object"]    one JSON object, obj maps its keys to values   *)
(* and a JSON value is [t |-> "bool", b |-> ...], [t |-> "str"] or         *)
(* [t |-> "int"].                                                          *)
(***************************************************************************)
JBool(b) == [t |-> "bool", b |-> b]
JStr == [t |-> "str", b |-> FALSE]
JInt(b) == [t |-> "int", b |-> b]

NoObj == [k \in {} |-> JStr]
Stdout(kind, obj) == [kind |-> kind, obj |-> obj]
Proc(returncode, stdout, stderr) ==
    [returncode |-> returncode, stdout |-> stdout, stderr |-> stderr]

RequiredKeys == <<[key |-> "ok", typ |-> "bool"],
                  [key |-> "summary", typ |-> "str"],
                  [key |-> "changed", typ |-> "bool"]>>

RECURSIVE CheckKeys(_, _)
\* the for loop of validate_json_stdout from position i on
CheckKeys(obj, i) ==
    IF i > Len(RequiredKeys) THEN None
    ELSE IF RequiredKeys[i].key \notin DOMAIN obj
    THEN Some(<<"JSON missing required key: ", RequiredKeys[i].key>>)
    ELSE IF obj[RequiredKeys[i].key].t # RequiredKeys[i].typ
    THEN Some(<<"JSON key ", RequiredKeys[i].key, " must be ", RequiredKeys[i].typ>>)
    ELSE CheckKeys(obj, i + 1)

\* the types of the values are not checked
validate_json_stdout_NoTypes(proc) ==
    LET out == proc.stdout
        missing == {i \in 1..Len(RequiredKeys) : RequiredKeys[i].key \notin DOMAIN out.obj}
    IN IF out.kind = "empty"
       THEN [obj |-> None,
             err |-> Some(<<"empty stdout in --json mode (must output one JSON object)">>)]
       ELSE IF out.kind \in {"invalid", "extra"}
       THEN [obj |-> None, err |-> Some(<<"stdout is not valid JSON: ">>)]
       ELSE IF out.kind # "object"
       THEN [obj |-> None, err |-> Some(<<"JSON output must be an object">>)]
       ELSE IF missing # {}
       THEN [obj |-> None,
             err |-> Some(<<"JSON missing required key: ",
                            RequiredKeys[CHOOSE i \in missing :
                                             \A j \in missing : i <= j].key>>)]
       ELSE [obj |-> Some(out.obj), err |-> None]

\* (obj, err)
validate_json_stdout(proc) ==
    LET out == proc.stdout
    IN IF out.kind = "empty"
       THEN [obj |-> None,
             err |-> Some(<<"empty stdout in --json mode (must output one JSON object)">>)]
       ELSE IF out.kind \in {"invalid", "extra"}
       THEN [obj |-> None, err |-> Some(<<"stdout is not valid JSON: ">>)]
       ELSE IF out.kind # "object"
       THEN [obj |-> None, err |-> Some(<<"JSON output must be an object">>)]
       ELSE IF ~IsNone(CheckKeys(out.obj, 1))
       THEN [obj |-> None, err |-> CheckKeys(out.obj, 1)]
       ELSE [obj |-> Some(out.obj), err |-> None]

\* obj.get(key) is True / is False
GetIs(obj, key, b) == key \in DOMAIN obj /\ obj[key] = JBool(b)

HelpFailedMsg(proc) ==
    <<"--help failed (exit=", ToString(proc.returncode), "). stderr=">>
        \o Prefix(Strip(proc.stderr), STDERR_LIMIT)

\* the whole stderr is quoted
HelpIssues_NoLimit(entry, proc_help) ==
    IF proc_help.returncode # 0
    THEN <<Issue("error", entry,
                 <<"--help failed (exit=", ToString(proc_help.returncode), "). stderr=">>
                     \o Strip(proc_help.stderr))>>
    ELSE <<>>

\* validate_exec_mode, the check of the --help run
HelpIssues(entry, proc_help) ==
    IF proc_help.returncode # 0
    THEN <<Issue("error", entry, HelpFailedMsg(proc_help))>>
    ELSE <<>>

JsonFailedMsg(err, proc) ==
    <<"--json validation failed: ">> \o err \o <<". stderr=">>
        \o Prefix(Strip(proc.stderr), STDERR_LIMIT)

ChangedMsg == <<"dry-run (--apply not set) must not set changed=true">>
UnexpectedExitMsg(code) ==
    <<"unexpected exit code in json run: ", ToString(code),
      " (expected 0 or ", ToString(EXIT_PRECONDITION), ")">>
ExitOkMsg == <<"exit=0 but ok!=true">>
ExitPreconditionMsg == <<"exit=", ToString(EXIT_PRECONDITION), " but ok!=false">>

\* the checks without the one of changed
ContractIssues_NoChanged(entry, obj, returncode) ==
    (IF returncode \notin {0, EXIT_PRECONDITION}
     THEN <<Issue("error", entry, UnexpectedExitMsg(returncode))>> ELSE <<>>)
    \o (IF returncode = 0 /\ ~GetIs(obj, "ok", TRUE)
        THEN <<Issue("error", entry, ExitOkMsg)>> ELSE <<>>)
    \o (IF returncode = EXIT_PRECONDITION /\ ~GetIs(obj, "ok", FALSE)
        THEN <<Issue("error", entry, ExitPreconditionMsg)>> ELSE <<>>)

\* the checks without the one of exit code 0 against ok
ContractIssues_NoExitOk(entry, obj, returncode) ==
    (IF GetIs(obj, "changed", TRUE)
     THEN <<Issue("error", entry, ChangedMsg)>> ELSE <<>>)
    \o (IF returncode \notin {0, EXIT_PRECONDITION}
        THEN <<Issue("error", entry, UnexpectedExitMsg(returncode))>> ELSE <<>>)
    \o (IF returncode = EXIT_PRECONDITION /\ ~GetIs(obj, "ok", FALSE)
        THEN <<Issue("error", entry, ExitPreconditionMsg)>> ELSE <<>>)

\* the checks that follow a valid JSON object
ContractIssues(entry, obj, returncode) ==
    (IF GetIs(obj, "changed", TRUE)
     THEN <<Issue("error", entry, ChangedMsg)>> ELSE <<>>)
    \o (IF returncode \notin {0, EXIT_PRECONDITION}
        THEN <<Issue("error", entry, UnexpectedExitMsg(returncode))>> ELSE <<>>)
    \o (IF returncode = 0 /\ ~GetIs(obj, "ok", TRUE)
        THEN <<Issue("error", entry, ExitOkMsg)>> ELSE <<>>)
    \o (IF returncode = EXIT_PRECONDITION /\ ~GetIs(obj, "ok", FALSE)
        THEN <<Issue("error", entry, ExitPreconditionMsg)>> ELSE <<>>)

\* the contract checks follow a rejected stdout too, on an empty object
JsonIssues_NoReturn(entry, proc_json) ==
    LET v == validate_json_stdout(proc_json)
    IN (IF ~IsNone(v.err)
        THEN <<Issue("error", entry, JsonFailedMsg(Get(v.err), proc_json))>>
        ELSE <<>>)
       \o ContractIssues(entry, IF IsNone(v.obj) THEN NoObj ELSE Get(v.obj),
                         proc_json.returncode)

\* validate_exec_mode, the checks of the --json run
JsonIssues(entry, proc_json) ==
    LET v == validate_json_stdout(proc_json)
    IN IF ~IsNone(v.err)
       THEN <<Issue("error", entry, JsonFailedMsg(Get(v.err), proc_json))>>
       ELSE ContractIssues(entry, Get(v.obj), proc_json.returncode)

validate_exec_mode(entry, proc_help, proc_json) ==
    HelpIssues(entry, proc_help) \o JsonIssues(entry, proc_json)

(***************************************************************************)
(* Reports                                                                 *)
(***************************************************************************)
repo_root == <<>>

\* skill_dir relative to repo_root when it lies below it
build_report_path(skill_dir, root) ==
    IF Len(skill_dir) >= Len(root) /\ SubSeq(skill_dir, 1, Len(root)) = root
    THEN RelativeTo(skill_dir, root) ELSE skill_dir

SkillReport(skill_dir, tier, name, desc, entry, issues) ==
    [skill_dir |-> PathStr(build_report_path(skill_dir, repo_root)),
     tier |-> tier, name |-> name, description |-> desc,
     script_backed |-> ~IsNone(entry), issues |-> issues]

NumLevel(issues, error) ==
    Cardinality({i \in 1..Len(issues) : (issues[i].level = "error") = error})

RECURSIVE CountLevel(_, _)
CountLevel(reports, error) ==
    IF reports = <<>> THEN 0
    ELSE NumLevel(Head(reports).issues, error) + CountLevel(Tail(reports), error)

\* (total_errors, total_warnings)
count_issues(reports) ==
    [errors |-> CountLevel(reports, TRUE), warnings |-> CountLevel(reports, FALSE)]

Summary(reports, args) ==
    LET n == count_issues(reports)
    IN [ok |-> n.errors = 0 /\ (~args.fail_on_warn \/ n.warnings = 0),
        skills_checked |-> Len(reports),
        errors |-> n.errors,
        warnings |-> n.warnings,
        mode |-> args.mode]

\* warnings never fail the run
ReturnCode_IgnoreWarn(reports, args) ==
    IF count_issues(reports).errors > 0 THEN 1 ELSE 0

\* the value main returns after emitting
ReturnCode(reports, args) ==
    LET n == count_issues(reports)
    IN IF n.errors > 0 THEN 1
       ELSE IF args.fail_on_warn /\ n.warnings > 0 THEN 1
       ELSE 0

IssueLine(item) ==
    <<"  [", item.level, "] ">> \o item.path \o <<": ">> \o item.message

RECURSIVE ReportLines(_)
\* the text listing: the reports that have issues, each followed by its issues
ReportLines(reports) ==
    IF reports = <<>> THEN <<>>
    ELSE LET r == Head(reports)
         IN (IF r.issues = <<>> THEN <<>>
             ELSE <<(<<"- ">> \o r.skill_dir \o <<" (">> \o r.tier \o <<")">>)>>
                  \o [i \in 1..Len(r.issues) |-> IssueLine(r.issues[i])])
            \o ReportLines(Tail(reports))

TextListing(reports, summary) ==
    <<(<<"Skills checked: ", ToString(summary.skills_checked)>>),
      (<<"Errors: ", ToString(summary.errors),
         ", Warnings: ", ToString(summary.warnings)>>)>>
    \o ReportLines(reports)

Payload(reports, summary) == [summary |-> summary, reports |-> reports]

(***************************************************************************)
(* The run of main                                                         *)
(***************************************************************************)
VARIABLES
    root_exists,    \* skills_root.exists()
    skill_dirs,     \* the tree: path of a directory holding SKILL.md -> its content
    test_files,     \* names of the files in <repo_root>/tests/skills
    yaml_installed, \* importlib.util.find_spec("yaml") is not None
    ns,             \* parsed arguments: mode, json_out, fail_on_warn
    pc,             \* position of main
    todo,           \* sorted(iter_skill_dirs(skills_root))
    next_skill,     \* index in todo of the skill the comprehension is at
    seen_names,     \* declared name -> directory that registered it
    frame,          \* locals of the running validate_skill_dir, <<>> outside
    reports,        \* the SkillReports built so far
    procs,          \* the subprocess.run calls made so far, in order
    summary,        \* <<summary>> once computed
    stdout,         \* what main wrote to sys.stdout
    stderr,         \* the lines main wrote to sys.stderr
    returned        \* <<code>> once main has returned

\* tools/new_skill.py, the run of its main
VARIABLES
    argv,           \* parsed arguments: name, description, yes, tier, run_type,
                    \* license_name, author, tags
    out_exists,     \* <out_root>/<tier>/<name> exists before the run
    scaffold_pc,    \* position of main
    locals,         \* <<[name, desc]>> once resolve_inputs has returned
    req,            \* <<CreateSkillRequest>> once built
    created,        \* <<what create_scaffold wrote>> once it has
    logged,         \* the messages written by log
    exit_code       \* <<code>> once main has returned

\* tools/build_index.py, the call build_index(root)
VARIABLES
    index_pc,       \* position of build_index
    entries         \* the list of SkillEntry built so far, sorted once returned

\* an entry script scripts/run.py, one run of it
VARIABLES
    entry_script,   \* the script that is run: its kind and the name of its skill
    script_argv,    \* its arguments: help, json, apply, and where --cwd points
    workdir,        \* the directory the validator gives as --cwd: git, systems
    completed       \* <<the finished process>> once the script has exited

\* tools/generate_skill_tests.py, the run of its main
VARIABLES
    gen_ns,         \* <<its parsed arguments: overwrite>>, <<>> when it is not run
    gen_pc,         \* position of main
    gen_locals,     \* the sorted directories, the place in them, created, skipped,
                    \* and the names of the files written
    gen_returned    \* <<code>> once main has returned

\* skillkit.fs.atomic_write: a directory, its writers and a reader
VARIABLES
    before,         \* what path held when the calls began, <<>> or <<content>>
    names,          \* the directory: file name -> inode
    inodes,         \* inode -> the chunks written to it so far
    writers,        \* per call of atomic_write: its position and its temporary file
    reader          \* the reader of path: its position, its open file, what it read

validator_vars == <<root_exists, skill_dirs, test_files, yaml_installed, ns, pc, todo,
                    next_skill, seen_names, frame, reports, procs, summary, stdout,
                    stderr, returned>>
scaffold_vars == <<argv, out_exists, scaffold_pc, locals, req, created, logged,
                   exit_code>>
index_vars == <<index_pc, entries>>
script_vars == <<entry_script, script_argv, workdir, completed>>
generator_vars == <<gen_ns, gen_pc, gen_locals, gen_returned>>
write_vars == <<before, names, inodes, writers, reader>>
later_vars == <<script_vars, generator_vars, write_vars>>
tool_vars == <<scaffold_vars, index_vars, later_vars>>
earlier_vars == <<validator_vars, scaffold_vars, index_vars>>

vars == <<validator_vars, scaffold_vars, index_vars, later_vars>>

env == <<root_exists, skill_dirs, test_files, yaml_installed, ns>>

\* iter_skill_dirs: parents of the SKILL.md files outside __pycache__
iter_skill_dirs(dirs) ==
    {d \in DOMAIN dirs : \A i \in 1..Len(d) : d[i] # PYCACHE}

RECURSIVE Sorted(_)
\* sorted(paths)
Sorted(paths) ==
    IF paths = {} THEN <<>>
    ELSE LET least == CHOOSE p \in paths : \A q \in paths : ~PathLess(q, p)
         IN <<least>> \o Sorted(paths \ {least})

RootNotFoundMsg == <<"skills root not found: ">> \o PathStr(skills_root)

\* main without the check of the skills root
Main_NoRootCheck ==
    /\ pc = "start"
    /\ seen_names' = NoSeen
    /\ todo' = IF root_exists THEN Sorted(iter_skill_dirs(skill_dirs)) ELSE <<>>
    /\ pc' = "loop"
    /\ UNCHANGED <<env, next_skill, frame, reports, procs, summary, stdout,
                   stderr, returned, tool_vars>>

\* main up to the list comprehension
Main ==
    /\ pc = "start"
    /\ IF ~root_exists
       THEN /\ stderr' = Append(stderr, RootNotFoundMsg)
            /\ returned' = Some(2)
            /\ pc' = "done"
            /\ UNCHANGED <<todo, seen_names>>
       ELSE /\ seen_names' = NoSeen
            /\ todo' = Sorted(iter_skill_dirs(skill_dirs))
            /\ pc' = "loop"
            /\ UNCHANGED <<stderr, returned>>
    /\ UNCHANGED <<env, next_skill, frame, reports, procs, summary, stdout,
                   tool_vars>>

\* read_text of SKILL.md or iterdir of references/ or assets/ raises
SkillRaises(content) ==
    ~content.md.decodable \/ DirectoriesRaise(content.refs, content.assets)

\* the issues of validate_skill_dir before exec mode, and the metadata result
StaticChecks(skill_dir, content, seen, tests, yaml) ==
    LET tier == detect_tier(skills_root, skill_dir)
        meta == validate_metadata(content.md, skill_dir, seen, yaml)
        entry == find_entry_script(skill_dir, content.scripts)
    IN [meta |-> meta,
        tier |-> tier,
        entry |-> entry,
        issues |->
            meta.issues
            \o validate_directories(skill_dir, content.refs, content.assets)
            \o (IF content.scripts # "absent" /\ IsNone(entry)
                THEN <<Issue("error", Append(skill_dir, SCRIPTS),
                             <<"scripts/ exists but scripts/run.py is missing">>)>>
                ELSE <<>>)
            \o validate_tests(tests, tier, skill_dir, entry)]

\* scripts are run in every mode
ExecApplies_AnyMode(mode, entry) == ~IsNone(entry)

\* the guard of the call of validate_exec_mode
ExecApplies(mode, entry) == mode = "exec" /\ ~IsNone(entry)

HelpArgs == <<"--help">>
JsonArgs == <<"--json", "--cwd">> \o PathStr(repo_root)

\* validate_skill_dir from its start to its first blocking call or its return
ValidateSkillDir ==
    /\ pc = "loop"
    /\ next_skill <= Len(todo)
    /\ LET skill_dir == todo[next_skill]
           content == skill_dirs[skill_dir]
           st == StaticChecks(skill_dir, content, seen_names, test_files,
                              yaml_installed)
       IN IF SkillRaises(content)
          THEN /\ pc' = "raised"
               /\ UNCHANGED <<seen_names, frame, reports, procs, next_skill>>
          ELSE /\ seen_names' = st.meta.seen_names
               /\ IF ExecApplies(ns.mode, st.entry)
                  THEN /\ frame' = Some([skill_dir |-> skill_dir, tier |-> st.tier,
                                         name |-> st.meta.name, desc |-> st.meta.desc,
                                         entry |-> Get(st.entry), issues |-> st.issues])
                       /\ procs' = Append(procs, [script |-> Get(st.entry),
                                                  args |-> HelpArgs])
                       /\ pc' = "help"
                       /\ UNCHANGED <<reports, next_skill>>
                  ELSE /\ reports' = Append(reports,
                               SkillReport(skill_dir, st.tier, st.meta.name,
                                           st.meta.desc, st.entry, st.issues))
                       /\ next_skill' = next_skill + 1
                       /\ UNCHANGED <<frame, procs, pc>>
    /\ UNCHANGED <<env, todo, summary, stdout, stderr, returned, tool_vars>>

\* the --help run returns (subprocess.run waits for the child without a
\* timeout): its check, then the --json run is started
HelpExit ==
    /\ pc = "help"
    /\ skill_dirs[Get(frame).skill_dir].script.hangs # "help"
    /\ LET f == Get(frame)
           proc_help == skill_dirs[f.skill_dir].script.help
       IN /\ frame' = Some([f EXCEPT !.issues = @ \o HelpIssues(f.entry, proc_help)])
          /\ procs' = Append(procs, [script |-> f.entry, args |-> JsonArgs])
    /\ pc' = "json"
    /\ UNCHANGED <<env, todo, next_skill, seen_names, reports, summary, stdout,
                   stderr, returned, tool_vars>>

\* the --json run returns: its checks, then validate_skill_dir returns
JsonExit ==
    /\ pc = "json"
    /\ skill_dirs[Get(frame).skill_dir].script.hangs # "json"
    /\ LET f == Get(frame)
           proc_json == skill_dirs[f.skill_dir].script.json
       IN reports' = Append(reports,
              SkillReport(f.skill_dir, f.tier, f.name, f.desc, Some(f.entry),
                          f.issues \o JsonIssues(f.entry, proc_json)))
    /\ frame' = None
    /\ next_skill' = next_skill + 1
    /\ pc' = "loop"
    /\ UNCHANGED <<env, todo, seen_names, procs, summary, stdout, stderr, returned,
                   tool_vars>>

\* count_issues, the summary, emit_report and the return of main
Emit ==
    /\ pc = "loop"
    /\ next_skill > Len(todo)
    /\ LET s == Summary(reports, ns)
       IN /\ summary' = Some(s)
          /\ IF ns.json_out
             THEN /\ stdout' = Append(stdout, Payload(reports, s))
                  /\ UNCHANGED stderr
             ELSE /\ stderr' = stderr \o TextListing(reports, s)
                  /\ UNCHANGED stdout
    /\ returned' = Some(ReturnCode(reports, ns))
    /\ pc' = "done"
    /\ UNCHANGED <<env, todo, next_skill, seen_names, frame, reports, procs,
                   tool_vars>>

Next == Main \/ ValidateSkillDir \/ HelpExit \/ JsonExit \/ Emit

(***************************************************************************)
(* The inputs of a run: the tree below the skills root, the test           *)
(* directory, the interpreter's packages and the arguments.                *)
(***************************************************************************)
NameA == <<"a">>
NameB == <<"b">>
NameUpper == <<"B">>
NameHyphen == <<"a", "-", "b">>
GoodDesc == <<"d">>

Md(lines) == [decodable |-> TRUE, lines |-> lines]
MdOk(name) ==
    Md(<<Delim, KV("name", name), KV("description", GoodDesc), Delim, TextLine>>)
MdNoEnd == Md(<<Delim, KV("name", NameA), KV("description", GoodDesc), TextLine>>)
MdNoStart == Md(<<Blank, Delim, KV("name", NameA), KV("description", GoodDesc), Delim>>)
MdNoName == Md(<<Delim, KV("description", GoodDesc), Delim>>)
MdNullDesc == Md(<<Delim, KV("name", NameA), KV("description", <<>>), Delim>>)
MdBlankDesc == Md(<<Delim, KV("name", NameA), KVQ("description", <<" ">>), Delim>>)
MdScalar == Md(<<Delim, TextLine, Delim>>)
MdBadYaml == Md(<<Delim, KV("name", NameA), BadLine, Delim>>)
MdUndecodable == [decodable |-> FALSE, lines |-> <<>>]
MdNested ==
    Md(<<Delim, KV("name", NameA), KV("description", GoodDesc), KV("metadata", <<>>),
         Nested("name", NameB), Delim>>)

\* descriptors that differ in the description line only
MdDesc(line) == Md(<<Delim, KV("name", NameA), line, Delim>>)
LongDesc == [i \in 1..(MAX_DESCRIPTION_LENGTH + 1) |-> "d"]
DescLines ==
    {KVQ("description", <<"d", "\\", "n", "d">>),
     KVQ("description", <<" ", "\\", "n">>),
     KV("description", LongDesc),
     KV("description", SubSeq(LongDesc, 1, MAX_DESCRIPTION_LENGTH)),
     KVQ("description", <<"\\", "n">> \o LongDesc),
     KV("description", <<"o", "n">>)}

NameMds == {MdOk(NameA), MdOk(NameB), MdNoEnd, MdUndecodable}
AllMds == NameMds \cup {MdOk(NameUpper), MdNoStart, MdNoName, MdNullDesc,
                        MdBlankDesc, MdScalar, MdBadYaml, MdNested}

Usage == Stdout("invalid", NoObj)
Obj(ok, changed) ==
    [k \in {"ok", "summary", "changed"} |->
        IF k = "ok" THEN ok ELSE IF k = "changed" THEN changed ELSE JStr]
Objects ==
    {Obj(JBool(ok), JBool(ch)) : ok \in BOOLEAN, ch \in BOOLEAN}
    \cup {Obj(JInt(TRUE), JBool(TRUE)), Obj(JBool(FALSE), JInt(TRUE)),
          [k \in {"ok", "summary"} |-> IF k = "ok" THEN JBool(TRUE) ELSE JStr]}
Stdouts ==
    {Stdout("empty", NoObj), Stdout("invalid", NoObj), Stdout("nonobject", NoObj)}
    \cup {Stdout("object", o) : o \in Objects}
ExitCodes == {0, 1, EXIT_PRECONDITION}

HelpRuns == {Proc(0, Usage, <<>>), Proc(1, Stdout("empty", NoObj), <<"e", " ">>)}
JsonRuns == {Proc(c, out, <<>>) : c \in ExitCodes, out \in Stdouts}
\* the behaviour of scripts/run.py: what its --help and its --json run end
\* with, and hangs, the run that never exits ("none", "help" or "json")
Scripts == [help : HelpRuns, json : JsonRuns, hangs : {"none"}]
Compliant == [help |-> Proc(0, Usage, <<>>),
              json |-> Proc(0, Stdout("object", Obj(JBool(TRUE), JBool(FALSE))), <<>>),
              hangs |-> "none"]
Violating == [help |-> Proc(1, Stdout("empty", NoObj), <<"e", " ">>),
              json |-> Proc(1, Stdout("object", Obj(JBool(TRUE), JBool(TRUE))), <<>>),
              hangs |-> "none"]
\* a script whose --help or --json run never exits
Hanging == {[Compliant EXCEPT !.hangs = h] : h \in {"help", "json"}}
\* the script field of a directory without scripts/run.py
NoScript == [help |-> Proc(0, Stdout("empty", NoObj), <<>>),
             json |-> Proc(0, Stdout("empty", NoObj), <<>>),
             hangs |-> "none"]

Content(md, refs, assets, scripts, script) ==
    [md |-> md, refs |-> refs, assets |-> assets, scripts |-> scripts,
     script |-> script]
Plain(md) == Content(md, "nonempty", "absent", "absent", NoScript)

CuratedA == skills_root \o <<CURATED, NameA>>
CuratedB == skills_root \o <<CURATED, NameB>>
ExperimentalA == skills_root \o <<EXPERIMENTAL, NameA>>
ExperimentalB == skills_root \o <<EXPERIMENTAL, NameB>>
CuratedHyphen == skills_root \o <<CURATED, NameHyphen>>
Cached == skills_root \o <<CURATED, NameA, PYCACHE>>
SkillPaths == {CuratedA, CuratedB, ExperimentalA, ExperimentalB}

Args == [mode : {"fast", "exec"}, json_out : BOOLEAN, fail_on_warn : BOOLEAN]

\* the trees that put contents at up to n of the paths
Trees(paths, contents, n) ==
    UNION {[D -> contents] : D \in {S \in SUBSET paths : Cardinality(S) <= n}}

\* tree with one more directory
With(tree, path, content) ==
    [p \in DOMAIN tree \cup {path} |-> IF p = path THEN content ELSE tree[p]]

World(root, dirs, tests, yaml, args) ==
    [root |-> root, dirs |-> dirs, tests |-> tests, yaml |-> yaml, args |-> args]

TestA == test_filename_for_skill(NameA)
TestB == test_filename_for_skill(NameB)
TestHyphen == <<"t", "e", "s", "t", "_", "a", "_", "b", ".", "p", "y">>
TestHyphenKept == <<"t", "e", "s", "t", "_", "a", "-", "b", ".", "p", "y">>

\* several skills that differ in their descriptors, some below __pycache__
NameWorlds ==
    {World(TRUE, dirs, {}, yaml, args) :
        dirs \in LET ts == Trees(SkillPaths, {Plain(md) : md \in NameMds}, MaxSkills)
                 IN ts \cup {With(t, Cached, Plain(MdOk(NameA))) : t \in ts},
        yaml \in BOOLEAN, args \in Args}

\* one skill, every descriptor
DescriptorWorlds ==
    {World(TRUE, dirs, {}, yaml, args) :
        dirs \in Trees({CuratedA, ExperimentalB}, {Plain(md) : md \in AllMds}, 1),
        yaml \in BOOLEAN, args \in Args}

\* one skill, every layout of its directory
LayoutWorlds ==
    {World(TRUE, dirs, tests, TRUE, args) :
        dirs \in Trees({CuratedA, ExperimentalA},
                       {Content(md, refs, assets, scripts,
                                IF scripts = "run" THEN Compliant ELSE NoScript) :
                            md \in {MdOk(NameA), MdNoEnd},
                            refs \in {"absent", "empty", "nonempty", "file"},
                            assets \in {"absent", "empty", "nonempty", "file"},
                            scripts \in {"absent", "norun", "run"}}, 1),
        tests \in {{}, {TestA}}, args \in Args}

\* one script-backed skill with every behaviour of its script, alone or
\* next to a second script-backed skill
ScriptWorlds ==
    {World(TRUE, dirs, tests, TRUE, args) :
        dirs \in LET ts == Trees({CuratedA, ExperimentalA},
                                 {Content(MdOk(NameA), "nonempty", "absent", "run", sc) :
                                      sc \in Scripts}, 1)
                 IN ts \cup {With(t, CuratedB,
                                  Content(MdOk(NameB), "nonempty", "absent", "run", sc)) :
                                 t \in ts, sc \in {Compliant, Violating}},
        tests \in {{}, {TestA}}, args \in Args}

\* one script-backed skill and the test files that exist
TestWorlds ==
    {World(TRUE, dirs, tests, TRUE, args) :
        dirs \in Trees({CuratedA, ExperimentalA, CuratedHyphen},
                       {Content(md, "nonempty", "absent", "run", sc) :
                            md \in {MdOk(NameA), MdOk(NameB), MdOk(NameHyphen), MdNoEnd},
                            sc \in {Compliant, Violating}}, 1),
        tests \in (SUBSET {TestA, TestB}) \cup (SUBSET {TestHyphen, TestHyphenKept}),
        args \in Args}

\* one skill whose only issues come from its description
DescriptionWorlds ==
    {World(TRUE, dirs, {}, yaml, args) :
        dirs \in Trees({CuratedA}, {Plain(MdDesc(ln)) : ln \in DescLines}, 1) ,
        yaml \in BOOLEAN, args \in Args}

\* a script-backed skill whose script never exits, alone or before a second
\* script-backed skill
HangWorlds ==
    {World(TRUE, dirs, {TestA}, TRUE, args) :
        dirs \in LET ts == Trees({CuratedA},
                                 {Content(MdOk(NameA), "nonempty", "absent", "run", sc) :
                                      sc \in Hanging}, 1)
                 IN ts \cup {With(t, CuratedB,
                                  Content(MdOk(NameB), "nonempty", "absent", "run",
                                          Compliant)) : t \in ts},
        args \in Args}

\* every way the three required keys can be present, missing or mistyped,
\* with and without a key the contract does not name
KeyTypes == {"absent", "bool", "str", "int"}
JValue(t) == IF t = "bool" THEN JBool(TRUE) ELSE IF t = "str" THEN JStr ELSE JInt(TRUE)
ContractObject(ok, sum, changed, extra) ==
    LET typ == [k \in {"ok", "summary", "changed", "extra"} |->
                   IF k = "ok" THEN ok ELSE IF k = "summary" THEN sum
                   ELSE IF k = "changed" THEN changed ELSE extra]
    IN [k \in {x \in DOMAIN typ : typ[x] # "absent"} |->
           IF k = "changed" /\ typ[k] = "bool" THEN JBool(FALSE) ELSE JValue(typ[k])]
ContractStdouts ==
    {Stdout("object", ContractObject(ok, sum, changed, extra)) :
        ok \in KeyTypes, sum \in KeyTypes, changed \in KeyTypes,
        extra \in {"absent", "int"}}
    \cup {Stdout("extra", Obj(JBool(TRUE), JBool(FALSE)))}

\* one script-backed skill in exec mode whose --json run exits 0
ContractWorlds ==
    {World(TRUE, dirs, {TestA}, TRUE, args) :
        dirs \in Trees({CuratedA},
                       {Content(MdOk(NameA), "nonempty", "absent", "run",
                                [Compliant EXCEPT !.json = Proc(0, out, <<"w">>)]) :
                            out \in ContractStdouts}, 1),
        args \in {a \in Args : a.mode = "exec"}}

\* --help runs: exit codes 0, 1, 2 and -9 (killed by a signal), stderr
\* shorter than, as long as and longer than the limit
LongStderr(n) == <<" ">> \o [i \in 1..n |-> "e"] \o <<"\n">>
HelpOutcomes ==
    {Proc(c, Stdout("empty", NoObj), err) :
        c \in {0, 1, 2, -9},
        err \in {<<>>, <<"e", " ", "e">>, LongStderr(STDERR_LIMIT),
                 LongStderr(STDERR_LIMIT + 1)}}

\* one script-backed skill in exec mode, every outcome of its --help run
HelpWorlds ==
    {World(TRUE, dirs, {TestA}, TRUE, args) :
        dirs \in Trees({CuratedA},
                       {Content(MdOk(NameA), "nonempty", "absent", "run",
                                [help |-> h, json |-> j, hangs |-> "none"]) :
                            h \in HelpOutcomes, j \in {Compliant.json, Violating.json}},
                       1),
        args \in {a \in Args : a.mode = "exec"}}

\* no skills root
MissingRootWorlds ==
    {World(FALSE, [p \in {} |-> Plain(MdOk(NameA))], {}, TRUE, args) : args \in Args}

\* a skill with scripts/ without run.py next to a skill with or without
\* scripts/
NoRunWorlds ==
    {World(TRUE, dirs, tests, TRUE, args) :
        dirs \in {With(t, CuratedA,
                       Content(MdOk(NameA), "nonempty", "absent", "norun", NoScript)) :
                      t \in Trees({CuratedB},
                                  {Content(MdOk(NameB), "nonempty", "absent", scripts,
                                           IF scripts = "run" THEN Compliant
                                           ELSE NoScript) :
                                       scripts \in {"absent", "norun", "run"}}, 1)},
        tests \in {{}, {TestA, TestB}}, args \in Args}

Worlds ==
    NameWorlds \cup DescriptorWorlds \cup LayoutWorlds \cup ScriptWorlds
    \cup TestWorlds \cup MissingRootWorlds \cup DescriptionWorlds \cup HangWorlds
    \cup ContractWorlds \cup HelpWorlds \cup NoRunWorlds

\* the file system and the arguments of a run
Environment(w) ==
    /\ root_exists = w.root
    /\ skill_dirs = w.dirs
    /\ test_files = w.tests
    /\ yaml_installed = w.yaml
    /\ ns = w.args

\* main of validate_skills has not assigned anything yet
ValidatorAt(start) ==
    /\ pc = start
    /\ todo = <<>>
    /\ next_skill = 1
    /\ seen_names = NoSeen
    /\ frame = None
    /\ reports = <<>>
    /\ procs = <<>>
    /\ summary = None
    /\ stdout = <<>>
    /\ stderr = <<>>
    /\ returned = None

\* new_skill is not run
ScaffoldIdle ==
    /\ argv = None
    /\ out_exists = FALSE
    /\ scaffold_pc = "idle"
    /\ locals = None
    /\ req = None
    /\ created = None
    /\ logged = <<>>
    /\ exit_code = None

\* build_index is not run
IndexIdle ==
    /\ index_pc = "idle"
    /\ entries = <<>>

\* no entry script is run outside the validator
ScriptIdle ==
    /\ entry_script = None
    /\ script_argv = None
    /\ workdir = None
    /\ completed = None

\* generate_skill_tests is not run
GeneratorIdle ==
    /\ gen_ns = None
    /\ gen_pc = "idle"
    /\ gen_locals = None
    /\ gen_returned = None

\* nothing calls atomic_write
WriteIdle ==
    /\ before = None
    /\ names = <<>>
    /\ inodes = <<>>
    /\ writers = <<>>
    /\ reader = None

LaterIdle == ScriptIdle /\ GeneratorIdle /\ WriteIdle

Init ==
    /\ \E w \in Worlds : Environment(w)
    /\ ValidatorAt("start")
    /\ ScaffoldIdle
    /\ IndexIdle
    /\ LaterIdle

Spec == Init /\ [][Next]_vars

(***************************************************************************)
(* Cancellation.  SIGINT raises KeyboardInterrupt in main, which installs  *)
(* no handler and has no try statement: the exception leaves main from     *)
(* wherever it is (subprocess.run kills the child and re-raises).          *)
(***************************************************************************)
Interrupt ==
    /\ pc \in {"start", "loop", "help", "json"}
    /\ pc' = "interrupted"
    /\ UNCHANGED <<env, todo, next_skill, seen_names, frame, reports, procs, summary,
                   stdout, stderr, returned, tool_vars>>

InterruptNext == Main \/ ValidateSkillDir \/ HelpExit \/ JsonExit \/ Emit \/ Interrupt

\* runs over script-backed skills that may be cancelled
InterruptInit ==
    /\ \E w \in ScriptWorlds \cup HangWorlds : Environment(w)
    /\ ValidatorAt("start")
    /\ ScaffoldIdle
    /\ IndexIdle
    /\ LaterIdle

InterruptSpec == InterruptInit /\ [][InterruptNext]_vars

(***************************************************************************)
(* tools/new_skill.py: the scaffold generator                              *)
(***************************************************************************)
\* the slice bound of req.description[:120]
SHORT_DESCRIPTION_LENGTH == 120

\* validate_skill_name of new_skill: the message of the ValueError, or None
new_skill_validate_skill_name(name) ==
    IF ~(1 <= Len(name) /\ Len(name) <= MAX_NAME_LENGTH)
    THEN Some("skill name must be 1-64 characters")
    ELSE IF ~AGENT_SKILLS_NAME_RE(name)
    THEN Some("skill name must match ^[a-z0-9]+(?:-[a-z0-9]+)*$ (lowercase/digits/hyphens)")
    ELSE IF Contains(name, <<"-", "-">>)
    THEN Some("skill name must not contain consecutive hyphens ('--')")
    ELSE None

\* re.sub(r"\s+", " ", text): a run of whitespace becomes one space
Collapse(text) ==
    Flatten([i \in 1..Len(text) |->
        IF text[i] \notin Whitespace THEN <<text[i]>>
        ELSE IF i > 1 /\ text[i - 1] \in Whitespace THEN <<>>
        ELSE <<" ">>])

\* " ".join(text.strip().splitlines()).strip(), then the substitution
single_line(text) == Collapse(Strip(Replace(Strip(text), "\n", " ")))

\* .replace("\\", "\\\\").replace('"', '\\"')
Escape(text) ==
    Flatten([i \in 1..Len(text) |->
        IF text[i] \in {"\\", "\""} THEN <<"\\", text[i]>> ELSE <<text[i]>>])

\* the text between the double quotes of the scalar
yaml_escape_single_line(text) == Escape(single_line(text))

RECURSIVE SplitOn(_, _)
\* s.split(c)
SplitOn(s, c) ==
    IF \A i \in 1..Len(s) : s[i] # c THEN <<s>>
    ELSE LET at == CHOOSE i \in 1..Len(s) :
                       s[i] = c /\ \A j \in 1..(i - 1) : s[j] # c
         IN <<SubSeq(s, 1, at - 1)>> \o SplitOn(SubSeq(s, at + 1, Len(s)), c)

RECURSIVE JoinWith(_, _)
\* sep.join(items)
JoinWith(items, sep) ==
    IF items = <<>> THEN <<>>
    ELSE IF Len(items) = 1 THEN items[1]
    ELSE items[1] \o sep \o JoinWith(Tail(items), sep)

\* raw: None or the value of --tags
parse_tags(raw) ==
    IF IsNone(raw) \/ Get(raw) = <<>> THEN <<>>
    ELSE LET items == SplitOn(Get(raw), ",")
         IN SelectSeq([i \in 1..Len(items) |-> Strip(items[i])], LAMBDA t : t # <<>>)

\* the line "  tags: [<tags>]": a flow sequence, which a "[" inside an item
\* leaves unclosed
TagsLine(tags) ==
    IF Contains(JoinWith(tags, <<",", " ">>), <<"[">>) THEN BadLine
    ELSE KV("tags", <<"[">> \o JoinWith(tags, <<",", " ">>) \o <<"]">>)

\* SKILL.md of the request; the keys below "metadata:" stand without their
\* indentation and the body is one heading line
render_skill_md(r) ==
    [decodable |-> TRUE,
     lines |->
        <<Delim,
          KV("name", r.name),
          KVQ("description", yaml_escape_single_line(r.description)),
          KVQ("license", yaml_escape_single_line(r.license_name)),
          KVQ("compatibility",
              <<"Requires Python and uv. Scripts follow docs/script-contract.md.">>),
          KV("metadata", <<>>),
          KVQ("short-description",
              yaml_escape_single_line(Prefix(r.description, SHORT_DESCRIPTION_LENGTH)))>>
        \o (IF ~IsNone(r.author) /\ Get(r.author) # <<>>
            THEN <<KVQ("author", yaml_escape_single_line(Get(r.author)))>> ELSE <<>>)
        \o (IF r.tags # <<>> THEN <<TagsLine(r.tags)>> ELSE <<>>)
        \o <<Delim, Blank, TextLine>>]

RequiredMsg ==
    <<"U+274C", " name and description are required. Use --yes only with both provided.">>
EmptyDescriptionMsg == <<"U+274C", " description must be non-empty">>
LongDescriptionMsg ==
    <<"U+274C", " description too long (>500 chars). Make it more specific and shorter.">>

\* main returns 2 on a ValueError
Fail(message) ==
    /\ logged' = Append(logged, message)
    /\ exit_code' = Some(2)
    /\ scaffold_pc' = "done"

\* resolve_inputs; the prompt of interactive_missing is not modelled: a run
\* without --yes gets a name and a description that are not blank
ResolveInputs ==
    /\ scaffold_pc = "start"
    /\ LET name == IF argv.yes THEN argv.name ELSE Strip(argv.name)
           desc == IF argv.yes THEN argv.description ELSE Strip(argv.description)
       IN IF name = <<>> \/ desc = <<>>
          THEN Fail(RequiredMsg) /\ UNCHANGED locals
          ELSE /\ locals' = Some([name |-> name, desc |-> desc])
               /\ scaffold_pc' = "resolved"
               /\ UNCHANGED <<logged, exit_code>>
    /\ UNCHANGED <<argv, out_exists, req, created, validator_vars, index_vars, later_vars>>

\* validate_skill_name(name)
ValidateName ==
    /\ scaffold_pc = "resolved"
    /\ LET err == new_skill_validate_skill_name(Get(locals).name)
       IN IF ~IsNone(err)
          THEN Fail(<<Get(err)>>)
          ELSE scaffold_pc' = "named" /\ UNCHANGED <<logged, exit_code>>
    /\ UNCHANGED <<argv, out_exists, locals, req, created, validator_vars, index_vars, later_vars>>

\* desc = normalize_description(desc)
NormalizeDescription ==
    /\ scaffold_pc = "named"
    /\ LET normalized == single_line(Get(locals).desc)
       IN IF normalized = <<>>
          THEN Fail(EmptyDescriptionMsg) /\ UNCHANGED locals
          ELSE IF Len(normalized) > MAX_DESCRIPTION_LENGTH
          THEN Fail(LongDescriptionMsg) /\ UNCHANGED locals
          ELSE /\ locals' = Some([Get(locals) EXCEPT !.desc = normalized])
               /\ scaffold_pc' = "normalized"
               /\ UNCHANGED <<logged, exit_code>>
    /\ UNCHANGED <<argv, out_exists, req, created, validator_vars, index_vars, later_vars>>

\* (ns.tests == "yes") or (ns.tests == "auto" and ns.run_type == "script")
MakeTests(args) ==
    args.tests = "yes" \/ (args.tests = "auto" /\ args.run_type = "script")

build_request(args, name, desc) ==
    [name |-> name, description |-> desc, tier |-> args.tier,
     run_type |-> args.run_type, license_name |-> args.license_name,
     author |-> args.author, tags |-> parse_tags(args.tags),
     make_tests |-> MakeTests(args)]

\* what create_scaffold leaves on disk: SKILL.md, references/README.md,
\* assets/README.md, scripts/run.py for a script skill, and the test file
\* unless one exists (LICENSE.txt is not modelled)
create_scaffold(skill_dir, r, tests) ==
    [skill_dir |-> skill_dir,
     md |-> render_skill_md(r),
     refs |-> "nonempty",
     assets |-> "nonempty",
     scripts |-> IF r.run_type = "script" THEN "run" ELSE "absent",
     test |-> IF r.make_tests /\ test_filename_for_skill(r.name) \notin tests
              THEN Some(test_filename_for_skill(r.name)) ELSE None]

\* the messages main logs after create_scaffold
CreatedLog(skill_dir, r, tests) ==
    (IF r.make_tests /\ test_filename_for_skill(r.name) \in tests
     THEN <<(<<"U+26A0", " tests already exist, skip: ">>
             \o PathStr(<<TESTS, SKILLS, test_filename_for_skill(r.name)>>))>>
     ELSE <<>>)
    \o <<(<<"U+2705", " Created skill scaffold: ">> \o PathStr(skill_dir))>>
    \o (IF r.make_tests
        THEN <<(<<"U+2705", " Generated tests: tests/skills/">>
                \o test_filename_for_skill(r.name))>>
        ELSE <<>>)
    \o <<(<<"Next steps:">>),
         (<<"1) Edit ">> \o PathStr(Append(skill_dir, SKILL_MD))
          \o <<" (fill TODOs, refine triggers/examples)">>)>>
    \o (IF r.run_type = "script"
        THEN <<(<<"2) Implement ">> \o PathStr(skill_dir \o <<SCRIPTS, RUN_PY>>)),
               (<<"   following docs/script-contract.md">>)>>
        ELSE <<>>)
    \o <<(<<"3) Run your lint/test workflow (ruff, etc.)">>)>>

\* build_request, ensure_output_dir, create_scaffold and the return of main
CreateScaffold ==
    /\ scaffold_pc = "normalized"
    /\ LET r == build_request(argv, Get(locals).name, Get(locals).desc)
           skill_dir == skills_root \o <<r.tier, r.name>>
       IN /\ req' = Some(r)
          /\ IF out_exists
             THEN /\ logged' = Append(logged,
                        <<"U+274C", " skill directory already exists: ">>
                            \o PathStr(skill_dir))
                  /\ exit_code' = Some(3)
                  /\ UNCHANGED created
             ELSE /\ created' = Some(create_scaffold(skill_dir, r, test_files))
                  /\ logged' = logged \o CreatedLog(skill_dir, r, test_files)
                  /\ exit_code' = Some(0)
    /\ scaffold_pc' = "done"
    /\ UNCHANGED <<argv, out_exists, locals, validator_vars, index_vars, later_vars>>

ScaffoldNext == ResolveInputs \/ ValidateName \/ NormalizeDescription \/ CreateScaffold

\* the inputs of new_skill
SYSTEM == <<".", "s", "y", "s", "t", "e", "m">>
TIERS == <<CURATED, EXPERIMENTAL, SYSTEM>>

NameChars == {"a", "1", "-", "\n", "B"}
ShortNames == UNION {[1..n -> NameChars] : n \in 0..3}
Repeat(c, n) == [i \in 1..n |-> c]
LongNames ==
    {Repeat("a", MAX_NAME_LENGTH), Repeat("a", MAX_NAME_LENGTH + 1),
     Repeat("a", MAX_NAME_LENGTH - 1) \o <<"\n">>,
     Repeat("a", MAX_NAME_LENGTH) \o <<"\n">>}
TypedNames == YamlNull \cup YamlTrue \cup YamlFalse
                  \cup {<<"0">>, <<"0", "1">>, <<"0", "1", "1">>, <<"1", "0">>}
Descriptions ==
    {GoodDesc, <<" ", "d", " ">>, <<"d", "\n", "d">>, <<"d", " ", " ", "d">>,
     <<" ">>, <<"\n">>, <<"d", "\"">>, <<"\\", "d">>, <<"o", "n">>,
     Repeat("d", MAX_DESCRIPTION_LENGTH),
     Repeat("d", MAX_DESCRIPTION_LENGTH + 1),
     Repeat("d", MAX_DESCRIPTION_LENGTH - 2) \o <<" ", " ", "d">>,
     Repeat("d", SHORT_DESCRIPTION_LENGTH - 1) \o <<"\"", "d">>}
TagValues == {None, Some(<<>>), Some(<<"a", ",", "b">>), Some(<<" ", "a", " ", ",", ",">>),
              Some(<<"[">>)}
Authors == {None, Some(<<>>), Some(<<"x">>), Some(<<"\"">>)}
Licenses == {<<"M">>, <<"M", "\n", "\"">>}

Request(name, description, yes, tier, run_type, license_name, author, tags, tests) ==
    [name |-> name, description |-> description, yes |-> yes, tier |-> tier,
     run_type |-> run_type, license_name |-> license_name, author |-> author,
     tags |-> tags, tests |-> tests]

\* every name, with --yes
NameRequests ==
    {Request(name, GoodDesc, TRUE, EXPERIMENTAL, "instruction", <<"M">>, None, None,
             "auto") :
        name \in ShortNames \cup LongNames \cup TypedNames}

\* every description, with and without --yes when it is not blank
DescriptionRequests ==
    {Request(NameA, d, yes, CURATED, "instruction", <<"M">>, None, None, "auto") :
        d \in Descriptions, yes \in BOOLEAN}
    \ {Request(NameA, d, FALSE, CURATED, "instruction", <<"M">>, None, None, "auto") :
        d \in {<<" ">>, <<"\n">>}}

\* the other fields of the front matter and the layout
FieldRequests ==
    {Request(NameHyphen, GoodDesc, TRUE, TIERS[t], "instruction", lic, author, tags,
             "auto") :
        t \in {1, 3}, lic \in Licenses, author \in Authors, tags \in TagValues}
    \cup {Request(NameHyphen, GoodDesc, TRUE, CURATED, run_type, <<"M">>, None, None,
                  tests) :
            run_type \in {"instruction", "script"}, tests \in {"auto", "yes", "no"}}

Requests == NameRequests \cup DescriptionRequests \cup FieldRequests

\* a run of new_skill; the validator and the index builder are not run
ScaffoldInit ==
    /\ \E r \in Requests, exists \in BOOLEAN, tests \in {{}, {TestHyphen}}:
        /\ argv = r
        /\ out_exists = exists
        /\ test_files = tests
    /\ root_exists = TRUE
    /\ skill_dirs = [p \in {} |-> Plain(MdOk(NameA))]
    /\ yaml_installed \in BOOLEAN
    /\ ns = [mode |-> "fast", json_out |-> FALSE, fail_on_warn |-> FALSE]
    /\ scaffold_pc = "start"
    /\ locals = None
    /\ req = None
    /\ created = None
    /\ logged = <<>>
    /\ exit_code = None
    /\ ValidatorAt("idle")
    /\ IndexIdle
    /\ LaterIdle

ScaffoldSpec == ScaffoldInit /\ [][ScaffoldNext]_vars

(***************************************************************************)
(* tools/build_index.py: the index builder                                 *)
(***************************************************************************)
\* content.split("---", 2): the text before the first "---", the text up to
\* the second one and the rest; in the descriptors of the model "---" occurs
\* in delimiter lines only.  <<>> when there are fewer than three parts.
SplitFrontMatter(lines) ==
    LET ds == {i \in 1..Len(lines) : lines[i].k = "delim"}
    IN IF Cardinality(ds) < 2 THEN None
       ELSE LET first == CHOOSE i \in ds : \A j \in ds : i <= j
                second == CHOOSE i \in ds \ {first} : \A j \in ds \ {first} : i <= j
            IN Some(SubSeq(lines, first + 1, second - 1))

\* what yaml.safe_load makes of a block: it raises ("error"), or returns
\* None ("empty"), a str ("scalar") or a dict ("mapping")
YamlDocument(block) ==
    LET content == {i \in 1..Len(block) : block[i].k # "blank"}
    IN IF \E i \in content : block[i].k = "bad" THEN "error"
       ELSE IF content = {} THEN "empty"
       ELSE IF \A i \in content : block[i].k = "text" THEN "scalar"
       ELSE IF \E i \in content : block[i].k = "text" THEN "error"
       ELSE "mapping"

\* skill_dir.parents[0].name.lstrip("."), the tier without the dot
load_meta_KeepDot(skill_dir, content) ==
    LET parts == SplitFrontMatter(content.md.lines)
    IN IF ~content.md.decodable \/ IsNone(parts) THEN [raised |-> TRUE]
       ELSE IF YamlDocument(Get(parts)) # "mapping" THEN [raised |-> TRUE]
       ELSE IF YamlLoad(Get(parts), "name").t # "str"
               \/ YamlLoad(Get(parts), "description").t # "str"
       THEN [raised |-> TRUE]
       ELSE [raised |-> FALSE,
             name |-> YamlLoad(Get(parts), "name").v,
             description |-> YamlLoad(Get(parts), "description").v,
             path |-> PathStr(skill_dir),
             tier |-> skill_dir[Len(skill_dir) - 1]]

\* the SkillEntry of a directory, or the exception: UnicodeDecodeError of
\* read_text, ValueError, yaml.YAMLError, TypeError
load_meta(skill_dir, content) ==
    LET parts == SplitFrontMatter(content.md.lines)
    IN IF ~content.md.decodable \/ IsNone(parts) THEN [raised |-> TRUE]
       ELSE IF YamlDocument(Get(parts)) # "mapping" THEN [raised |-> TRUE]
       ELSE IF YamlLoad(Get(parts), "name").t # "str"
               \/ YamlLoad(Get(parts), "description").t # "str"
       THEN [raised |-> TRUE]
       ELSE [raised |-> FALSE,
             name |-> YamlLoad(Get(parts), "name").v,
             description |-> YamlLoad(Get(parts), "description").v,
             path |-> PathStr(skill_dir),
             tier |-> LStripChar(skill_dir[Len(skill_dir) - 1], ".")]

\* (entry.tier, entry.name) < (other.tier, other.name)
KeyLess(entry, other) ==
    IF entry.tier = other.tier THEN StrLess(entry.name, other.name)
    ELSE StrLess(entry.tier, other.tier)

RECURSIVE SortedByKey(_)
\* sorted(entries, key=...): stable, equal keys keep their order
SortedByKey(list) ==
    IF list = <<>> THEN <<>>
    ELSE LET least == CHOOSE i \in 1..Len(list) :
                          /\ \A j \in 1..Len(list) : ~KeyLess(list[j], list[i])
                          /\ \A j \in 1..(i - 1) : KeyLess(list[i], list[j])
                                                   \/ KeyLess(list[j], list[i])
         IN <<list[least]>>
            \o SortedByKey(SubSeq(list, 1, least - 1) \o SubSeq(list, least + 1, Len(list)))

\* the SKILL.md files root.rglob has not yielded yet
NotLoaded ==
    {d \in DOMAIN skill_dirs : \A i \in 1..Len(entries) : entries[i].path # PathStr(d)}

\* one step of the list comprehension: rglob yields the files in the order
\* of the file system, load_meta reads the next one
LoadMeta ==
    /\ index_pc = "loading"
    /\ \E d \in NotLoaded :
        LET entry == load_meta(d, skill_dirs[d])
        IN IF entry.raised
           THEN index_pc' = "raised" /\ UNCHANGED entries
           ELSE /\ entries' = Append(entries,
                                     [name |-> entry.name,
                                      description |-> entry.description,
                                      path |-> entry.path, tier |-> entry.tier])
                /\ UNCHANGED index_pc
    /\ UNCHANGED <<validator_vars, scaffold_vars, later_vars>>

\* the list is complete: build_index sorts it and returns
SortEntries ==
    /\ index_pc = "loading"
    /\ NotLoaded = {}
    /\ entries' = SortedByKey(entries)
    /\ index_pc' = "done"
    /\ UNCHANGED <<validator_vars, scaffold_vars, later_vars>>

IndexNext == LoadMeta \/ SortEntries

\* a skill directly below the root
RootLevelB == skills_root \o <<NameB>>

\* the trees of the validator's runs, and trees with a skill below the root
\* a skill whose directory is named by a number
CuratedOne == skills_root \o <<CURATED, <<"1">>>>

\* one skill whose name or description YAML does not read as a string
TypedTrees ==
    {[p \in {CuratedA} |-> Plain(MdDesc(KV("description", v)))] :
        v \in {<<"o", "n">>, <<"1", "0">>, <<"d", " ", "1">>}}
    \cup {[p \in {CuratedOne} |-> Plain(MdOk(<<"1">>))]}

IndexTrees ==
    {w.dirs : w \in NameWorlds \cup DescriptorWorlds \cup TestWorlds}
    \cup {With(w.dirs, RootLevelB, Plain(MdOk(NameB))) : w \in DescriptorWorlds}
    \cup TypedTrees

\* a call build_index(skills_root); the validator and new_skill are not run
IndexInit ==
    /\ \E t \in IndexTrees :
        Environment(World(TRUE, t, {}, TRUE,
                          [mode |-> "fast", json_out |-> FALSE, fail_on_warn |-> FALSE]))
    /\ ValidatorAt("idle")
    /\ ScaffoldIdle
    /\ index_pc = "loading"
    /\ entries = <<>>
    /\ LaterIdle

IndexSpec == IndexInit /\ [][IndexNext]_vars

(***************************************************************************)
(* The entry scripts: the two scripts of the repository, which report      *)
(* through skillkit, and the stub that new_skill writes.  One run of a     *)
(* script is one step: a script is a sequential program that nothing       *)
(* observes before it exits.                                               *)
(***************************************************************************)
\* skillkit.report.ExitCode
SUCCESS == 0
UNMET == 2
PRECONDITION == 3

JList == [t |-> "list", b |-> FALSE]
JDict == [t |-> "dict", b |-> FALSE]

\* Report.to_dict
to_dict(report) ==
    [k \in {"ok", "summary", "actions", "diagnostics", "artifacts"} |->
        IF k = "ok" THEN JBool(report.ok)
        ELSE IF k = "summary" THEN JStr ELSE JList]

\* what emit_report writes: json.dumps of the dictionary (json.loads gives
\* the keys and types back), or the summary, which is not JSON
emit_report(report, json_output) ==
    IF json_output THEN Stdout("object", to_dict(report)) ELSE Stdout("invalid", NoObj)

\* an exception leaves the script: the interpreter prints the traceback
\* and exits with 1
Traceback ==
    Proc(1, Stdout("empty", NoObj), <<"T", "r", "a", "c", "e", "b", "a", "c", "k">>)

\* argparse prints the usage and exits with 0 when --help is given
HelpProc == Proc(0, Usage, <<>>)

\* skills/.curated/git-status/scripts/run.py, on a machine that has git;
\* git of the working directory wd is "none" (not in a repository),
\* "clean" or "dirty"; subprocess.run raises when its cwd does not exist
git_status_main(args, wd) ==
    IF args.help THEN HelpProc
    ELSE IF args.cwd = "missing" THEN Traceback
    ELSE IF wd.git = "none"
    THEN Proc(PRECONDITION, emit_report([ok |-> FALSE], args.json), <<>>)
    ELSE Proc(IF wd.git = "dirty" THEN UNMET ELSE SUCCESS,
              emit_report([ok |-> wd.git # "dirty"], args.json), <<>>)

\* detect_build_system: the systems that have a marker file in cwd
detect_build_system(args, wd) ==
    IF args.cwd = "missing" THEN {} ELSE wd.systems

\* skills/.experimental/detect-build-system/scripts/run.py
detect_build_system_main(args, wd) ==
    IF args.help THEN HelpProc
    ELSE IF detect_build_system(args, wd) = {}
    THEN Proc(UNMET, emit_report([ok |-> FALSE], args.json), <<>>)
    ELSE Proc(SUCCESS, emit_report([ok |-> TRUE], args.json), <<>>)

\* render_script_stub: the text is fixed but for the name of the skill,
\* which it puts between double quotes in three string literals
render_script_stub(r) == [skill |-> r.name]

\* does the interpreter compile the stub: a string literal between double
\* quotes ends at a newline, at a double quote or after a backslash
Compiles(stub) ==
    \A i \in 1..Len(stub.skill) : stub.skill[i] \notin {"\n", "\"", "\\"}

\* asdict(res) of the stub
StubResult(ok) ==
    [k \in {"ok", "summary", "changed", "actions", "artifacts", "warnings", "errors",
            "metadata"} |->
        IF k = "ok" THEN JBool(ok)
        ELSE IF k = "changed" THEN JBool(FALSE)
        ELSE IF k = "summary" THEN JStr
        ELSE IF k = "metadata" THEN JDict ELSE JList]

\* main of the stub
stub_main(stub, args) ==
    IF ~Compiles(stub)
    THEN Proc(1, Stdout("empty", NoObj), <<"S", "y", "n", "t", "a", "x", "E", "r", "r", "o", "r">>)
    ELSE IF args.help THEN HelpProc
    ELSE IF args.cwd = "missing"
    THEN Proc(PRECONDITION,
              IF args.json THEN Stdout("object", StubResult(FALSE))
              ELSE Stdout("empty", NoObj),
              <<"U+274C", " precondition failed: --cwd does not exist: ">>)
    ELSE Proc(SUCCESS,
              IF args.json THEN Stdout("object", StubResult(TRUE))
              ELSE Stdout("invalid", NoObj),
              <<>>)

\* the script of the given kind is to be run
Runs(kind) ==
    /\ ~IsNone(entry_script)
    /\ Get(entry_script).kind = kind
    /\ IsNone(completed)

GitStatusMain ==
    /\ Runs("git-status")
    /\ completed' = Some(git_status_main(Get(script_argv), Get(workdir)))
    /\ UNCHANGED <<entry_script, script_argv, workdir, earlier_vars, generator_vars,
                   write_vars>>

DetectBuildSystemMain ==
    /\ Runs("detect-build-system")
    /\ completed' = Some(detect_build_system_main(Get(script_argv), Get(workdir)))
    /\ UNCHANGED <<entry_script, script_argv, workdir, earlier_vars, generator_vars,
                   write_vars>>

StubMain ==
    /\ Runs("stub")
    /\ completed' = Some(stub_main(Get(entry_script), Get(script_argv)))
    /\ UNCHANGED <<entry_script, script_argv, workdir, earlier_vars, generator_vars,
                   write_vars>>

ScriptNext == GitStatusMain \/ DetectBuildSystemMain \/ StubMain

\* the inputs: the scripts, their arguments and the working directories
Systems == {"python", "make", "go"}
Workdirs == [git : {"none", "clean", "dirty"}, systems : SUBSET Systems]
ScriptArgs == [help : BOOLEAN, json : BOOLEAN, apply : BOOLEAN, cwd : {"root", "missing"}]
\* the names that new_skill accepts
AcceptedNames ==
    {name \in ShortNames \cup LongNames :
        IsNone(new_skill_validate_skill_name(name))}
EntryScripts ==
    {[kind |-> "git-status",
      skill |-> <<"g", "i", "t", "-", "s", "t", "a", "t", "u", "s">>],
     [kind |-> "detect-build-system",
      skill |-> <<"d", "e", "t", "e", "c", "t", "-", "b", "u", "i", "l", "d", "-",
                  "s", "y", "s", "t", "e", "m">>]}
    \cup {[kind |-> "stub", skill |-> render_script_stub([name |-> name]).skill] :
            name \in AcceptedNames}

\* nothing else runs
NoEnvironment ==
    Environment(World(TRUE, [p \in {} |-> Plain(MdOk(NameA))], {}, TRUE,
                      [mode |-> "fast", json_out |-> FALSE, fail_on_warn |-> FALSE]))

ScriptInit ==
    /\ \E script \in EntryScripts, args \in ScriptArgs, wd \in Workdirs :
        /\ entry_script = Some(script)
        /\ script_argv = Some(args)
        /\ workdir = Some(wd)
    /\ completed = None
    /\ NoEnvironment
    /\ ValidatorAt("idle")
    /\ ScaffoldIdle
    /\ IndexIdle
    /\ GeneratorIdle
    /\ WriteIdle

ScriptSpec == ScriptInit /\ [][ScriptNext]_vars

(***************************************************************************)
(* tools/generate_skill_tests.py: the generator of the companion tests,    *)
(* run with its default --skills-root and --tests-dir, which are the       *)
(* directories of the validator; then the validator is run.                *)
(***************************************************************************)
\* what the generator leaves alone of the validator's variables
validator_rest == <<root_exists, skill_dirs, yaml_installed, ns, todo, next_skill,
                    seen_names, frame, reports, procs, summary, stdout, stderr,
                    returned>>

\* the name is used as it is
generate_skill_tests_test_filename_for_skill_KeepHyphen(name) ==
    <<"t", "e", "s", "t", "_">> \o name \o <<".", "p", "y">>

\* test_filename_for_skill of generate_skill_tests.py
generate_skill_tests_test_filename_for_skill(name) ==
    <<"t", "e", "s", "t", "_">> \o Replace(name, "-", "_") \o <<".", "p", "y">>

\* main up to its loop: the check of the skills root and the sorted list of
\* its iter_skill_dirs, which is the function of the validator
GeneratorMain ==
    /\ gen_pc = "start"
    /\ IF ~root_exists
       THEN /\ gen_returned' = Some(2)
            /\ gen_pc' = "done"
            /\ UNCHANGED gen_locals
       ELSE /\ gen_locals' = Some([todo |-> Sorted(iter_skill_dirs(skill_dirs)),
                                   next |-> 1, created |-> 0, skipped |-> 0,
                                   written |-> {}])
            /\ gen_pc' = "loop"
            /\ UNCHANGED gen_returned
    /\ UNCHANGED <<gen_ns, test_files, pc, validator_rest, scaffold_vars, index_vars,
                   script_vars, write_vars>>

\* one turn of the loop over the skill directories
GenerateTest ==
    /\ gen_pc = "loop"
    /\ Get(gen_locals).next <= Len(Get(gen_locals).todo)
    /\ LET l == Get(gen_locals)
           skill_dir == l.todo[l.next]
           test_path == generate_skill_tests_test_filename_for_skill(PathName(skill_dir))
       IN IF skill_dirs[skill_dir].scripts # "run"
          THEN /\ gen_locals' = Some([l EXCEPT !.next = l.next + 1])
               /\ UNCHANGED test_files
          ELSE IF test_path \in test_files /\ ~Get(gen_ns).overwrite
          THEN /\ gen_locals' = Some([l EXCEPT !.next = l.next + 1,
                                               !.skipped = l.skipped + 1])
               /\ UNCHANGED test_files
          ELSE /\ test_files' = test_files \cup {test_path}
               /\ gen_locals' = Some([l EXCEPT !.next = l.next + 1,
                                               !.created = l.created + 1,
                                               !.written = l.written \cup {test_path}])
    /\ UNCHANGED <<gen_ns, gen_pc, gen_returned, pc, validator_rest, scaffold_vars,
                   index_vars, script_vars, write_vars>>

\* the loop is over: main writes its counts and returns 0
GeneratorReturn ==
    /\ gen_pc = "loop"
    /\ Get(gen_locals).next > Len(Get(gen_locals).todo)
    /\ gen_returned' = Some(0)
    /\ gen_pc' = "done"
    /\ UNCHANGED <<gen_ns, gen_locals, test_files, pc, validator_rest, scaffold_vars,
                   index_vars, script_vars, write_vars>>

\* validate_skills is started once the generator has returned
StartValidator ==
    /\ gen_pc = "done"
    /\ pc = "idle"
    /\ pc' = "start"
    /\ UNCHANGED <<generator_vars, test_files, validator_rest, scaffold_vars,
                   index_vars, script_vars, write_vars>>

GeneratorNext ==
    \/ GeneratorMain
    \/ GenerateTest
    \/ GeneratorReturn
    \/ StartValidator
    \/ Next

\* up to two skills with and without scripts/ and run.py, one of them below
\* __pycache__, and the test files that exist before the run
GeneratorTrees ==
    LET contents == {Content(MdOk(NameA), "nonempty", "absent", scripts,
                             IF scripts = "run" THEN Compliant ELSE NoScript) :
                         scripts \in {"absent", "norun", "run"}}
        ts == Trees({CuratedA, ExperimentalA, CuratedHyphen}, contents, MaxSkills - 1)
    IN ts \cup {With(t, Cached, Content(MdOk(NameA), "nonempty", "absent", "run",
                                        Compliant)) : t \in ts}

GeneratorInit ==
    /\ \E dirs \in GeneratorTrees, tests \in SUBSET {TestA, TestHyphen, TestHyphenKept},
          root \in BOOLEAN, mode \in {"fast", "exec"} :
        Environment(World(root, dirs, tests, TRUE,
                          [mode |-> mode, json_out |-> FALSE, fail_on_warn |-> FALSE]))
    /\ ValidatorAt("idle")
    /\ ScaffoldIdle
    /\ IndexIdle
    /\ ScriptIdle
    /\ WriteIdle
    /\ gen_ns \in {Some([overwrite |-> o]) : o \in BOOLEAN}
    /\ gen_pc = "start"
    /\ gen_locals = None
    /\ gen_returned = None

GeneratorSpec == GeneratorInit /\ [][GeneratorNext]_vars

(***************************************************************************)
(* src/skillkit/fs.py: atomic_write(path, content), called by main of      *)
(* build_index.py with its --output and the index.                         *)
(* The directory path.parent is names, a function from file names to       *)
(* inodes; inodes is the sequence of the files' contents, and an inode     *)
(* lives on while a name or an open file refers to it.  Each call is a     *)
(* process of its own:                                                      *)
(*   mkdir   -> path.parent.mkdir(parents=True, exist_ok=True)              *)
(*   create  -> NamedTemporaryFile("w", delete=False, dir=path.parent)      *)
(*   write   -> handle.write(content) and the close of the with block: the  *)
(*              buffered text reaches the file in one or more pieces        *)
(*   replace -> temp_path.replace(path), the rename system call             *)
(* The reader opens path and reads it to its end, any number of times.     *)
(***************************************************************************)
Calls_atomic_write == {1, 2}
OUTPUT == <<"i", "n", "d", "e", "x", ".", "j", "s", "o", "n">>
\* the names tempfile draws from, "tmp" and random characters
TempNames == {<<"t", "m", "p", "0">>, <<"t", "m", "p", "1">>, <<"t", "m", "p", "2">>}

\* the temporary file takes the place of path at once
mkstemp_InPlace(dir) == {OUTPUT}

\* the names mkstemp may create with O_CREAT | O_EXCL: those not in use
mkstemp(dir) == {n \in TempNames : n \notin DOMAIN dir}

\* os.replace(src, dst) on the directory: dst refers to the file of src
\* and src is gone
replace(dir, src, dst) ==
    [n \in (DOMAIN dir \ {src}) \cup {dst} |-> IF n = dst THEN dir[src] ELSE dir[n]]

WriterAt(w, at) == writers[w].pc = at

\* path.parent.mkdir(parents=True, exist_ok=True): the directory exists
Mkdir(w) ==
    /\ WriterAt(w, "mkdir")
    /\ writers' = [writers EXCEPT ![w].pc = "create"]
    /\ UNCHANGED <<before, names, inodes, reader, earlier_vars, script_vars,
                   generator_vars>>

\* NamedTemporaryFile: a new empty file under a name of mkstemp
CreateTemp(w) ==
    /\ WriterAt(w, "create")
    /\ \E n \in mkstemp(names) :
        /\ inodes' = Append(inodes, <<>>)
        /\ names' = [m \in DOMAIN names \cup {n} |->
                        IF m = n THEN Len(inodes) + 1 ELSE names[m]]
        /\ writers' = [writers EXCEPT ![w].pc = "write", ![w].temp = n,
                                      ![w].ino = Len(inodes) + 1]
    /\ UNCHANGED <<before, reader, earlier_vars, script_vars, generator_vars>>

\* one piece of the content reaches the temporary file
WritePiece(w) ==
    /\ WriterAt(w, "write")
    /\ Len(inodes[writers[w].ino]) < Len(writers[w].content)
    /\ \E n \in (Len(inodes[writers[w].ino]) + 1)..Len(writers[w].content) :
        inodes' = [inodes EXCEPT ![writers[w].ino] = SubSeq(writers[w].content, 1, n)]
    /\ UNCHANGED <<before, names, writers, reader, earlier_vars, script_vars,
                   generator_vars>>

\* the with block is left: everything is written and the file is closed
CloseTemp(w) ==
    /\ WriterAt(w, "write")
    /\ Len(inodes[writers[w].ino]) = Len(writers[w].content)
    /\ writers' = [writers EXCEPT ![w].pc = "replace"]
    /\ UNCHANGED <<before, names, inodes, reader, earlier_vars, script_vars,
                   generator_vars>>

\* temp_path.replace(path)
ReplacePath(w) ==
    /\ WriterAt(w, "replace")
    /\ names' = replace(names, writers[w].temp, OUTPUT)
    /\ writers' = [writers EXCEPT ![w].pc = "done"]
    /\ UNCHANGED <<before, inodes, reader, earlier_vars, script_vars, generator_vars>>

\* the reader opens path: it holds the file path names now, or finds none
ReaderOpen ==
    /\ reader.pc # "open"
    /\ reader' = IF OUTPUT \in DOMAIN names
                 THEN [pc |-> "open", ino |-> names[OUTPUT], seen |-> <<>>]
                 ELSE [pc |-> "absent", ino |-> 0, seen |-> <<>>]
    /\ UNCHANGED <<before, names, inodes, writers, earlier_vars, script_vars,
                   generator_vars>>

\* it reads some of what its file holds
ReaderRead ==
    /\ reader.pc = "open"
    /\ Len(reader.seen) < Len(inodes[reader.ino])
    /\ \E n \in (Len(reader.seen) + 1)..Len(inodes[reader.ino]) :
        reader' = [reader EXCEPT !.seen = SubSeq(inodes[reader.ino], 1, n)]
    /\ UNCHANGED <<before, names, inodes, writers, earlier_vars, script_vars,
                   generator_vars>>

\* it is at the end of its file: seen is what it has read
ReaderEof ==
    /\ reader.pc = "open"
    /\ Len(reader.seen) = Len(inodes[reader.ino])
    /\ reader' = [reader EXCEPT !.pc = "eof"]
    /\ UNCHANGED <<before, names, inodes, writers, earlier_vars, script_vars,
                   generator_vars>>

WriteNext ==
    \/ \E w \in Calls_atomic_write :
        Mkdir(w) \/ CreateTemp(w) \/ WritePiece(w) \/ CloseTemp(w) \/ ReplacePath(w)
    \/ ReaderOpen
    \/ ReaderRead
    \/ ReaderEof

\* the contents of the model: an old index and two new ones
OldIndex == <<"[", "]", "\n">>
Payloads == {<<"[", "a", "]", "\n">>, <<"[", "b", "]", "\n">>}

\* path is absent or holds the old index, and two calls of atomic_write
\* for path have begun
WriteInit ==
    /\ before \in {None, Some(OldIndex)}
    /\ names = IF IsNone(before) THEN <<>> ELSE [n \in {OUTPUT} |-> 1]
    /\ inodes = IF IsNone(before) THEN <<>> ELSE <<OldIndex>>
    /\ writers \in [Calls_atomic_write ->
                       {[pc |-> "mkdir", content |-> c, temp |-> <<>>, ino |-> 0] :
                            c \in Payloads}]
    /\ reader = [pc |-> "closed", ino |-> 0, seen |-> <<>>]
    /\ NoEnvironment
    /\ ValidatorAt("idle")
    /\ ScaffoldIdle
    /\ IndexIdle
    /\ ScriptIdle
    /\ GeneratorIdle

WriteSpec == WriteInit /\ [][WriteNext]_vars

(***************************************************************************)
(* Properties                                                              *)
(***************************************************************************)
\* report k is the report of the directory todo[k]
Processed == 1..Len(reports)
ContentAt(k) == skill_dirs[todo[k]]
SkillMdAt(k) == PathStr(Append(todo[k], SKILL_MD))
EntryAt(k) == PathStr(todo[k] \o <<SCRIPTS, RUN_PY>>)
IssuesAt(k) == reports[k].issues
Emitted == pc = "done" /\ ~IsNone(summary)

\* the places of the mismatch issue of report k
MismatchIssues(k) ==
    {i \in 1..Len(IssuesAt(k)) :
        IssuesAt(k)[i] = [level |-> "error", path |-> SkillMdAt(k),
                          message |-> <<"frontmatter name '">> \o Get(reports[k].name)
                                      \o <<"' must match directory '">>
                                      \o PathName(todo[k]) \o <<"'">>]}

\* C1: a processed skill that declares a name other than the base name of
\* its directory has exactly one error issue that cites the declared name and
\* the directory name, and then the summary counts an error, ok is false and
\* main returns 1; a skill that declares the name of its directory has none
C1_NameMismatch ==
    \A k \in Processed :
        ~IsNone(reports[k].name) =>
            IF Get(reports[k].name) # PathName(todo[k])
            THEN /\ Cardinality(MismatchIssues(k)) = 1
                 /\ Emitted => /\ Get(summary).errors >= 1
                               /\ ~Get(summary).ok
                               /\ returned = Some(1)
            ELSE \A i \in 1..Len(IssuesAt(k)) :
                    IssuesAt(k)[i].message[1] # "frontmatter name '"

C1_Witness ==
    /\ Emitted
    /\ \E k \in Processed :
        /\ reports[k].name = Some(NameB)
        /\ PathName(todo[k]) = NameA
        /\ Cardinality(MismatchIssues(k)) = 1
    /\ returned = Some(1)

IsDuplicateIssue(issue) == issue.message[1] = "duplicate skill name '"
DuplicateIssues(k) ==
    {i \in 1..Len(IssuesAt(k)) : IsDuplicateIssue(IssuesAt(k)[i])}
\* the skills processed before k that declare the name of k
EarlierSame(k) == {j \in 1..(k - 1) : reports[j].name = reports[k].name}

\* C2: skills are processed in sorted path order; the first skill that
\* declares a name gets no duplicate issue, and every later skill declaring
\* it, in whatever tier, gets exactly one error that names the directory of
\* the first one, whether or not the first one passed the other name checks
C2_DuplicateNames ==
    /\ \A j, k \in 1..Len(todo) : j < k => PathLess(todo[j], todo[k])
    /\ \A k \in Processed :
        IF IsNone(reports[k].name) \/ EarlierSame(k) = {}
        THEN DuplicateIssues(k) = {}
        ELSE LET first == CHOOSE j \in EarlierSame(k) : \A h \in EarlierSame(k) : j <= h
             IN /\ Cardinality(DuplicateIssues(k)) = 1
                /\ \A i \in DuplicateIssues(k) :
                    IssuesAt(k)[i] =
                        [level |-> "error", path |-> SkillMdAt(k),
                         message |-> <<"duplicate skill name '">>
                                     \o Get(reports[k].name) \o <<"' also at ">>
                                     \o PathStr(todo[first])]

\* three skills in two tiers declare the same name, the first of them in a
\* directory of another name
C2_Witness ==
    /\ Len(reports) >= 3
    /\ reports[1].name = reports[3].name
    /\ reports[2].name = reports[3].name
    /\ ~IsNone(reports[1].name)
    /\ Get(reports[1].name) # PathName(todo[1])
    /\ detect_tier(skills_root, todo[1]) # detect_tier(skills_root, todo[3])
    /\ DuplicateIssues(1) = {}
    /\ Cardinality(DuplicateIssues(3)) = 1

\* the reports of the skills whose script the run has executed
ExecReports == {k \in Processed : ns.mode = "exec" /\ ContentAt(k).scripts = "run"}
JsonProcAt(k) == ContentAt(k).script.json
\* the error issues of report k that the checks of the --json run added
JsonRunErrors(k) ==
    {i \in 1..Len(IssuesAt(k)) :
        /\ IssuesAt(k)[i].level = "error"
        /\ IssuesAt(k)[i].path = EntryAt(k)
        /\ IssuesAt(k)[i].message[1] # "--help failed (exit="}
PrintsChanged(out) ==
    /\ out.kind = "object"
    /\ "changed" \in DOMAIN out.obj
    /\ out.obj["changed"] = [t |-> "bool", b |-> TRUE]
PrintsOk(out, b) ==
    /\ out.kind = "object"
    /\ "ok" \in DOMAIN out.obj
    /\ out.obj["ok"] = [t |-> "bool", b |-> b]

\* C3: in exec mode, a --json run whose output reports changed = true leaves
\* at least one error issue of the contract runner in the report of the
\* skill, whatever the exit code and the other keys are
C3_ChangedFlagged ==
    \A k \in ExecReports :
        PrintsChanged(JsonProcAt(k).stdout) => JsonRunErrors(k) # {}

\* a run that exits 0 with ok = true and changed = true: the only error of
\* the --json run is the one about changed
C3_Witness ==
    \E k \in ExecReports :
        /\ PrintsChanged(JsonProcAt(k).stdout)
        /\ PrintsOk(JsonProcAt(k).stdout, TRUE)
        /\ JsonProcAt(k).returncode = 0
        /\ Cardinality(JsonRunErrors(k)) = 1
        /\ \A i \in JsonRunErrors(k) :
            IssuesAt(k)[i].message =
                <<"dry-run (--apply not set) must not set changed=true">>

ViolatesExitCode(proc) ==
    \/ proc.returncode = 0 /\ ~PrintsOk(proc.stdout, TRUE)
    \/ proc.returncode = 3 /\ ~PrintsOk(proc.stdout, FALSE)
    \/ proc.returncode \notin {0, 3}

\* C4: in exec mode, a --json run that exits 0 without reporting ok = true,
\* or exits 3 without reporting ok = false, or exits with another code,
\* leaves at least one error issue in the report of the skill, for every
\* stdout, empty and non-JSON ones included
C4_ExitCodes ==
    \A k \in ExecReports :
        ViolatesExitCode(JsonProcAt(k)) => JsonRunErrors(k) # {}

\* exit 0 with a valid object that reports ok = false and changed = false
C4_Witness ==
    \E k \in ExecReports :
        /\ JsonProcAt(k).returncode = 0
        /\ PrintsOk(JsonProcAt(k).stdout, FALSE)
        /\ ~PrintsChanged(JsonProcAt(k).stdout)
        /\ IsNone(validate_json_stdout(JsonProcAt(k)).err)
        /\ Cardinality(JsonRunErrors(k)) = 1

\* the calls of subprocess.run for the script of directory d with given args
Calls(d, args) ==
    {i \in 1..Len(procs) :
        procs[i] = [script |-> d \o <<SCRIPTS, RUN_PY>>, args |-> args]}

\* C5: fast mode makes no subprocess call; in exec mode every call runs the
\* scripts/run.py of a discovered skill that has one, and each such script
\* is run at most twice, at most once with --help and at most once with
\* --json --cwd <root>, the second right after the first
C5_Subprocesses ==
    /\ ns.mode = "fast" => procs = <<>>
    /\ \A i \in 1..Len(procs) :
        \E d \in iter_skill_dirs(skill_dirs) :
            /\ skill_dirs[d].scripts = "run"
            /\ procs[i].script = d \o <<SCRIPTS, RUN_PY>>
            /\ \/ procs[i].args = <<"--help">>
               \/ /\ procs[i].args = <<"--json", "--cwd">> \o PathStr(repo_root)
                  /\ i > 1
                  /\ procs[i - 1] = [script |-> procs[i].script, args |-> <<"--help">>]
    /\ \A d \in DOMAIN skill_dirs :
        /\ Cardinality(Calls(d, <<"--help">>)) <= 1
        /\ Cardinality(Calls(d, <<"--json", "--cwd">> \o PathStr(repo_root))) <= 1
        /\ skill_dirs[d].scripts # "run" =>
            \A i \in 1..Len(procs) : procs[i].script # d \o <<SCRIPTS, RUN_PY>>

\* an exec run over two script-backed skills has made four calls
C5_Witness ==
    /\ Emitted
    /\ ns.mode = "exec"
    /\ Len(reports) = 2
    /\ \A k \in Processed : reports[k].script_backed
    /\ Len(procs) = 4

MissingTestIssues(k) ==
    {i \in 1..Len(IssuesAt(k)) :
        IssuesAt(k)[i].message[1] = "missing test file for script-backed skill: "}
\* test_<name with hyphens replaced by underscores>.py
CompanionTest(name) ==
    <<"t", "e", "s", "t", "_">>
    \o [i \in 1..Len(name) |-> IF name[i] = "-" THEN "_" ELSE name[i]]
    \o <<".", "p", "y">>
\* report k has exactly one issue for a missing test file, at the level of
\* its tier, and a curated one shows in the errors of the summary
MissingTestRecorded(k) ==
    /\ Cardinality(MissingTestIssues(k)) = 1
    /\ \A i \in MissingTestIssues(k) :
        IssuesAt(k)[i].level = IF reports[k].tier = CURATED THEN "error" ELSE "warning"
    /\ (reports[k].tier = CURATED /\ Emitted) => Get(summary).errors >= 1

\* C6 as stated, the companion file being named after the name the skill
\* declares: a script-backed skill whose file test_<declared name>.py does not
\* exist has exactly one issue for a missing file, error in .curated and
\* warning elsewhere
C6_Original ==
    \A k \in Processed :
        (/\ ContentAt(k).scripts = "run"
         /\ ~IsNone(reports[k].name)
         /\ CompanionTest(Get(reports[k].name)) \notin test_files)
        => MissingTestRecorded(k)

\* C6 (amended): the companion file is named after the base name of the
\* directory of the skill.  A script-backed skill whose file
\* tests/skills/test_<directory name, hyphens as underscores>.py does not
\* exist has exactly one issue for it, error in tier .curated and warning in
\* every other tier, in fast and exec mode and whatever its script does (a
\* curated one makes errors >= 1); any other skill has no such issue
C6_MissingTest ==
    \A k \in Processed :
        IF /\ ContentAt(k).scripts = "run"
           /\ CompanionTest(PathName(todo[k])) \notin test_files
        THEN /\ MissingTestRecorded(k)
             /\ \A i \in MissingTestIssues(k) :
                 /\ IssuesAt(k)[i].path =
                     PathStr(<<TESTS, SKILLS, CompanionTest(PathName(todo[k]))>>)
                 /\ IssuesAt(k)[i].message =
                     <<"missing test file for script-backed skill: ">>
                     \o CompanionTest(PathName(todo[k]))
        ELSE MissingTestIssues(k) = {}

\* exec mode, a curated skill in a directory with a hyphen, a compliant
\* script, no test file: the only issue is the error for the missing file
C6_Witness ==
    /\ Emitted
    /\ ns.mode = "exec"
    /\ \E k \in Processed :
        /\ PathName(todo[k]) = NameHyphen
        /\ ContentAt(k).script = Compliant
        /\ TestHyphen \notin test_files
        /\ TestHyphenKept \in test_files
        /\ JsonRunErrors(k) = {}
        /\ Cardinality(MissingTestIssues(k)) = 1
    /\ Get(summary).errors >= 1

\* the places of the issues of a level in all reports
IssuePlaces(error) ==
    {ki \in UNION {{<<k, i>> : i \in 1..Len(IssuesAt(k))} : k \in Processed} :
        (IssuesAt(ki[1])[ki[2]].level = "error") = error}

\* C7: once main has summed up, summary.errors is the number of error issues
\* of all reports and summary.warnings the number of all other issues,
\* summary.ok is true exactly when errors = 0 and (fail-on-warn is off or
\* warnings = 0), and main returns 0 when summary.ok is true and 1 otherwise
C7_Summary ==
    Emitted =>
        LET s == Get(summary)
        IN /\ s.errors = Cardinality(IssuePlaces(TRUE))
           /\ s.warnings = Cardinality(IssuePlaces(FALSE))
           /\ s.ok <=> (s.errors = 0 /\ (~ns.fail_on_warn \/ s.warnings = 0))
           /\ returned = Some(IF s.ok THEN 0 ELSE 1)

\* warnings only, with --fail-on-warn: ok is false and main returns 1
C7_Witness ==
    /\ Emitted
    /\ Get(summary).errors = 0
    /\ Get(summary).warnings > 0
    /\ ns.fail_on_warn
    /\ ~Get(summary).ok
    /\ returned = Some(1)

NothingEmitted == reports = <<>> /\ procs = <<>> /\ IsNone(summary) /\ stdout = <<>>

\* C8 as stated: with a missing skills root and with a root that contains no
\* skill alike, main returns 2 and has emitted no report
C8_Original ==
    (pc = "done" /\ (~root_exists \/ iter_skill_dirs(skill_dirs) = {}))
    => (returned = Some(2) /\ NothingEmitted)

\* C8 (amended): when the skills root does not exist, main returns 2 before
\* any skill is processed and before any report is emitted, with one line on
\* stderr; when the root exists and contains no skill, main emits the report
\* of zero skills, with ok = true, and returns 0
C8_MissingRoot ==
    /\ ~root_exists =>
        /\ pc \in {"start", "done"}
        /\ NothingEmitted
        /\ pc = "done" => returned = Some(2) /\ Len(stderr) = 1
    /\ (root_exists /\ pc = "done" /\ iter_skill_dirs(skill_dirs) = {}) =>
        /\ returned = Some(0)
        /\ summary = Some([ok |-> TRUE, skills_checked |-> 0, errors |-> 0,
                           warnings |-> 0, mode |-> ns.mode])
        /\ IF ns.json_out
           THEN stdout = <<[summary |-> Get(summary), reports |-> <<>>]>>
           ELSE Len(stderr) = 2

C8_Witness == ~root_exists /\ pc = "done" /\ returned = Some(2)

\* C9: with an existing skills root no failure of a single skill aborts the
\* run: main never ends in an exception, and when it ends it has built one
\* report per SKILL.md outside __pycache__ and emitted the aggregate report
C9_NoAbort ==
    root_exists =>
        /\ pc # "raised"
        /\ pc = "done" =>
            /\ Len(reports) = Cardinality(iter_skill_dirs(skill_dirs))
            /\ ~IsNone(summary)
            /\ Get(summary).skills_checked = Len(reports)
            /\ IF ns.json_out
               THEN stdout = <<[summary |-> Get(summary), reports |-> reports]>>
               ELSE stdout = <<>> /\ Len(stderr) >= 2

RECURSIVE RunFrom(_, _, _, _, _, _, _)
\* the list comprehension of main over the directories in order, as a
\* function of the tree: the reports, or raised when a directory raises
RunFrom(dirs, order, seen, tests, yaml, mode, acc) ==
    IF order = <<>> THEN [raised |-> FALSE, reports |-> acc]
    ELSE IF SkillRaises(dirs[Head(order)]) THEN [raised |-> TRUE, reports |-> acc]
    ELSE LET d == Head(order)
             st == StaticChecks(d, dirs[d], seen, tests, yaml)
             issues == st.issues
                       \o (IF ExecApplies(mode, st.entry)
                           THEN validate_exec_mode(Get(st.entry), dirs[d].script.help,
                                                   dirs[d].script.json)
                           ELSE <<>>)
         IN RunFrom(dirs, Tail(order), st.meta.seen_names, tests, yaml, mode,
                    Append(acc, SkillReport(d, st.tier, st.meta.name, st.meta.desc,
                                            st.entry, issues)))

RunReports(dirs, tests, yaml, mode) ==
    RunFrom(dirs, Sorted(iter_skill_dirs(dirs)), NoSeen, tests, yaml, mode, <<>>)

\* the tree without directory d
Without(dirs, d) == [p \in DOMAIN dirs \ {d} |-> dirs[p]]
\* the sequence without its element k
RemoveAt(seq, k) == SubSeq(seq, 1, k - 1) \o SubSeq(seq, k + 1, Len(seq))

\* the descriptor of report k opens with '---' and has no later '---' line
Unclosed(k) ==
    LET lines == ContentAt(k).md.lines
    IN /\ ContentAt(k).md.decodable
       /\ lines # <<>>
       /\ lines[1] = Delim
       /\ \A i \in 2..Len(lines) : lines[i] # Delim

\* C10: a descriptor with an opening and no closing '---' gives its skill the
\* error about the missing end line, error issues only and no name; it
\* registers nothing in seen_names and appears in no other report; and when
\* main ends every discovered skill has its report, the reports of the other
\* skills being those of the run over the tree without that skill
C10_UnclosedIsolated ==
    \A k \in Processed :
        Unclosed(k) =>
            /\ IsNone(reports[k].name)
            /\ \E i \in 1..Len(IssuesAt(k)) :
                IssuesAt(k)[i] =
                    [level |-> "error", path |-> SkillMdAt(k),
                     message |-> <<"missing YAML frontmatter end line '---'">>]
            /\ \A i \in 1..Len(IssuesAt(k)) :
                IssuesAt(k)[i].path = SkillMdAt(k) => IssuesAt(k)[i].level = "error"
            /\ \A n \in DOMAIN seen_names : seen_names[n] # todo[k]
            /\ \A j \in Processed \ {k} : \A i \in 1..Len(IssuesAt(j)) :
                /\ IssuesAt(j)[i].path # SkillMdAt(k)
                /\ IsDuplicateIssue(IssuesAt(j)[i]) =>
                    IssuesAt(j)[i].message # <<"duplicate skill name '">>
                        \o Get(reports[j].name) \o <<"' also at ">> \o PathStr(todo[k])
            /\ pc = "done" =>
                /\ Len(reports) = Cardinality(iter_skill_dirs(skill_dirs))
                /\ RemoveAt(reports, k) =
                    RunReports(Without(skill_dirs, todo[k]), test_files,
                               yaml_installed, ns.mode).reports

\* an unclosed descriptor with a line "name: a" is processed before a skill
\* that declares a, which gets no duplicate issue, and a third skill follows
C10_Witness ==
    /\ Emitted
    /\ Len(reports) = 3
    /\ Unclosed(1)
    /\ ContentAt(1).md.lines[2] = KV("name", NameA)
    /\ reports[2].name = Some(NameA)
    /\ DuplicateIssues(2) = {}

\* the grammar of a skill name: 1 to 64 characters, runs of lowercase letters
\* and digits separated by single hyphens
WellFormedName(name) ==
    /\ 1 <= Len(name) /\ Len(name) <= 64
    /\ \A i \in 1..Len(name) : name[i] \in Lower \cup Digits \cup {"-"}
    /\ name[1] # "-" /\ name[Len(name)] # "-"
    /\ \A i \in 1..(Len(name) - 1) : ~(name[i] = "-" /\ name[i + 1] = "-")

\* main of new_skill has returned 2 with a message of validate_skill_name
NameRejected ==
    /\ scaffold_pc = "done"
    /\ exit_code = Some(2)
    /\ logged \in
        {<<(<<"skill name must be 1-64 characters">>)>>,
         <<(<<"skill name must match ^[a-z0-9]+(?:-[a-z0-9]+)*$ (lowercase/digits/hyphens)">>)>>,
         <<(<<"skill name must not contain consecutive hyphens ('--')">>)>>}

\* C11: new_skill accepts a name exactly when it is well formed (no newline
\* included), rejects every other name, and the validator's
\* validate_skill_name accepts exactly the names new_skill accepts
C11_NameGrammar ==
    ~IsNone(locals) =>
        LET name == Get(locals).name
        IN /\ scaffold_pc = "named" =>
                WellFormedName(name) /\ IsNone(validate_skill_name(name))
           /\ NameRejected =>
                ~WellFormedName(name) /\ ~IsNone(validate_skill_name(name))

\* the issues of report k at the given level with the given message
DescIssuesAt(k, level, message) ==
    {i \in 1..Len(IssuesAt(k)) :
        IssuesAt(k)[i] = [level |-> level, path |-> SkillMdAt(k),
                          message |-> <<message>>]}

DescAbsent(k) == IsNone(reports[k].description)
DescBlank(k) ==
    /\ ~DescAbsent(k)
    /\ \A i \in 1..Len(Get(reports[k].description)) :
           Get(reports[k].description)[i] \in {" ", "\n"}
DescMultiLine(k) ==
    /\ ~DescAbsent(k)
    /\ \E i \in 1..Len(Get(reports[k].description)) :
           Get(reports[k].description)[i] = "\n"
DescLong(k) == ~DescAbsent(k) /\ Len(Get(reports[k].description)) > 500

Count(S, expected) == Cardinality(S) = IF expected THEN 1 ELSE 0

\* every issue of every report is one of the two description warnings
OnlyDescWarnings ==
    \A k \in Processed :
        \A i \in 1..Len(IssuesAt(k)) :
            i \in DescIssuesAt(k, "warning",
                      "description should be single-line for better triggering")
                  \cup DescIssuesAt(k, "warning",
                      "description is very long (>500 chars); consider shortening")

\* C12: a skill gets a description error exactly when its description is
\* absent or blank after stripping; a newline in it and a length above 500
\* give one warning each, never an error, and a run whose only issues are
\* these warnings is ok and returns 0 unless --fail-on-warn is set
C12_Description ==
    /\ \A k \in Processed :
        /\ Count(DescIssuesAt(k, "error", "frontmatter must include 'description'"),
                 DescAbsent(k))
        /\ Count(DescIssuesAt(k, "error", "description must be non-empty"),
                 DescBlank(k))
        /\ Count(DescIssuesAt(k, "warning",
                     "description should be single-line for better triggering"),
                 DescMultiLine(k))
        /\ Count(DescIssuesAt(k, "warning",
                     "description is very long (>500 chars); consider shortening"),
                 DescLong(k))
        /\ DescIssuesAt(k, "error",
               "description should be single-line for better triggering") = {}
        /\ DescIssuesAt(k, "error",
               "description is very long (>500 chars); consider shortening") = {}
    /\ Emitted /\ OnlyDescWarnings =>
        /\ Get(summary).errors = 0
        /\ Get(summary).ok = (~ns.fail_on_warn \/ Get(summary).warnings = 0)
        /\ returned = Some(IF Get(summary).ok THEN 0 ELSE 1)

\* a run without --fail-on-warn whose one skill has a description that is
\* both multi-line and too long: two warnings, and the run is ok
C12_Witness ==
    /\ Emitted
    /\ OnlyDescWarnings
    /\ ~ns.fail_on_warn
    /\ \E k \in Processed : DescMultiLine(k) /\ DescLong(k) /\ Len(IssuesAt(k)) = 2
    /\ Get(summary).ok
    /\ returned = Some(0)

\* C13: a run in exec mode always terminates, also when a script never
\* exits: a run that waits for a subprocess is never left waiting, the call
\* returns and the run goes on towards the report
C13_ExecTerminates ==
    pc \in {"help", "json"} => ENABLED (HelpExit \/ JsonExit)

\* C14: a run that is cancelled after some skills have been validated
\* starts no further validation and still emits the aggregate report of the
\* skills validated so far: it has emitted it or can still take a step
C14_CancelledReport ==
    pc = "interrupted" /\ reports # <<>> =>
        ~IsNone(summary) \/ stdout # <<>> \/ stderr # <<>> \/ ENABLED InterruptNext

\* the issues of report k that report a rejected stdout of the --json run
StdoutRejections(k) ==
    {i \in 1..Len(IssuesAt(k)) :
        IssuesAt(k)[i].message[1] = "--json validation failed: "}

KeyError(obj, key, typ) ==
    IF key \notin DOMAIN obj THEN <<"JSON missing required key: ", key>>
    ELSE IF obj[key].t # typ THEN <<"JSON key ", key, " must be ", typ>>
    ELSE <<>>

\* the error of the first check that fails, <<>> when none does
FirstFailingCheck(out) ==
    IF out.kind = "empty"
    THEN <<"empty stdout in --json mode (must output one JSON object)">>
    ELSE IF out.kind \in {"invalid", "extra"} THEN <<"stdout is not valid JSON: ">>
    ELSE IF out.kind = "nonobject" THEN <<"JSON output must be an object">>
    ELSE IF KeyError(out.obj, "ok", "bool") # <<>> THEN KeyError(out.obj, "ok", "bool")
    ELSE IF KeyError(out.obj, "summary", "str") # <<>>
    THEN KeyError(out.obj, "summary", "str")
    ELSE KeyError(out.obj, "changed", "bool")

\* C15: the stdout of a --json run is accepted exactly when it is one JSON
\* object with a boolean ok, a string summary and a boolean changed (numbers
\* are no booleans, further keys are ignored); any other stdout gives exactly
\* one error, the one of the first failing check in the order empty, invalid
\* JSON, not an object, then ok, summary, changed, each missing before
\* mistyped, and no contract check follows it
C15_JsonStdout ==
    \A k \in ExecReports :
        LET p == JsonProcAt(k)
            expected == FirstFailingCheck(p.stdout)
        IN IF expected = <<>>
           THEN StdoutRejections(k) = {}
           ELSE /\ Cardinality(StdoutRejections(k)) = 1
                /\ JsonRunErrors(k) = StdoutRejections(k)
                /\ \A i \in StdoutRejections(k) :
                    IssuesAt(k)[i] =
                        [level |-> "error", path |-> EntryAt(k),
                         message |-> <<"--json validation failed: ">> \o expected
                                     \o <<". stderr=">> \o p.stderr]

\* an object whose ok is the number 1 and whose summary is missing: the one
\* error is the type of ok
C15_Witness ==
    \E k \in ExecReports :
        /\ JsonProcAt(k).stdout.kind = "object"
        /\ "ok" \in DOMAIN JsonProcAt(k).stdout.obj
        /\ JsonProcAt(k).stdout.obj["ok"].t = "int"
        /\ "summary" \notin DOMAIN JsonProcAt(k).stdout.obj
        /\ "extra" \in DOMAIN JsonProcAt(k).stdout.obj
        /\ Cardinality(StdoutRejections(k)) = 1
        /\ \A i \in StdoutRejections(k) :
            IssuesAt(k)[i].message =
                <<"--json validation failed: ", "JSON key ", "ok", " must be ", "bool",
                  ". stderr=", "w">>

HelpProcAt(k) == ContentAt(k).script.help
\* the issues of report k about the --help run
HelpFailures(k) ==
    {i \in 1..Len(IssuesAt(k)) : IssuesAt(k)[i].message[1] = "--help failed (exit="}

\* C16: in exec mode a --help run that exits with a non-zero code leaves
\* exactly one error, which names the exit code and quotes the stripped
\* stderr up to its first 400 characters, and the --json run is performed
\* all the same; a --help run that exits 0 leaves no issue
C16_HelpFailure ==
    \A k \in ExecReports :
        LET p == HelpProcAt(k)
            e == Strip(p.stderr)
        IN /\ IF p.returncode = 0
              THEN HelpFailures(k) = {}
              ELSE /\ Cardinality(HelpFailures(k)) = 1
                   /\ \A i \in HelpFailures(k) :
                       IssuesAt(k)[i] =
                           [level |-> "error", path |-> EntryAt(k),
                            message |->
                                <<"--help failed (exit=", ToString(p.returncode),
                                  "). stderr=">>
                                \o SubSeq(e, 1, IF Len(e) > 400 THEN 400 ELSE Len(e))]
           /\ Calls(todo[k], <<"--json", "--cwd">> \o PathStr(repo_root)) # {}

\* a --help run that exits 2 with 401 characters on stderr: 400 are quoted
\* and the --json run has left its own error
C16_Witness ==
    \E k \in ExecReports :
        /\ HelpProcAt(k).returncode = 2
        /\ Len(Strip(HelpProcAt(k).stderr)) = 401
        /\ \E i \in HelpFailures(k) : Len(IssuesAt(k)[i].message) = 403
        /\ JsonRunErrors(k) # {}

\* the directory of an entry of the index
DirOf(entry) == CHOOSE d \in DOMAIN skill_dirs : PathStr(d) = entry.path

\* C17: the tier that the index builder records for a skill is the tier
\* that the validator's detect_tier computes for the same directory
C17_OneTierRule ==
    \A i \in 1..Len(entries) :
        entries[i].tier = detect_tier(skills_root, DirOf(entries[i]))

\* the index builder can load the SKILL.md of directory d: it is readable,
\* has two "---", and the text between the first two is a YAML mapping with
\* a string name and a string description
Loadable(d) ==
    LET md == skill_dirs[d].md
        ds == {i \in 1..Len(md.lines) : md.lines[i].k = "delim"}
    IN /\ md.decodable
       /\ Cardinality(ds) >= 2
       /\ YamlDocument(Get(SplitFrontMatter(md.lines))) = "mapping"
       /\ YamlLoad(Get(SplitFrontMatter(md.lines)), "name").t = "str"
       /\ YamlLoad(Get(SplitFrontMatter(md.lines)), "description").t = "str"

OneEntryPerSkill ==
    /\ Len(entries) = Cardinality(DOMAIN skill_dirs)
    /\ \A d \in DOMAIN skill_dirs :
        Cardinality({i \in 1..Len(entries) : entries[i].path = PathStr(d)}) = 1

\* ascending by (tier, name)
EntriesSorted ==
    \A i \in 1..Len(entries) : \A j \in (i + 1)..Len(entries) :
        \/ StrLess(entries[i].tier, entries[j].tier)
        \/ /\ entries[i].tier = entries[j].tier
           /\ ~StrLess(entries[j].name, entries[i].name)

CuratedEntries ==
    \A i \in 1..Len(entries) :
        LET d == DirOf(entries[i])
        IN Len(d) = 3 /\ d[2] = <<".", "c", "u", "r", "a", "t", "e", "d">> =>
              entries[i].tier = <<"c", "u", "r", "a", "t", "e", "d">>

\* C18 as stated: whatever the tree holds, build_index ends by returning
\* one entry per SKILL.md under the root, sorted by (tier, name), the skills
\* of <root>/.curated with tier "curated"
C18_Original ==
    index_pc \notin {"idle", "loading"} =>
        index_pc = "done" /\ OneEntryPerSkill /\ EntriesSorted /\ CuratedEntries

\* C18, amended: build_index returns only when every SKILL.md under the
\* root can be loaded and raises otherwise; the list it returns has exactly
\* one entry per SKILL.md under the root with the name and description of
\* its front matter, its path, and as tier the name of the parent directory
\* without leading dots ("curated" below <root>/.curated), sorted ascending
\* by (tier, name)
C18_Index ==
    /\ index_pc = "raised" => \E d \in DOMAIN skill_dirs : ~Loadable(d)
    /\ index_pc = "done" =>
        /\ \A d \in DOMAIN skill_dirs : Loadable(d)
        /\ OneEntryPerSkill
        /\ EntriesSorted
        /\ CuratedEntries
        /\ \A i \in 1..Len(entries) :
            LET d == DirOf(entries[i])
                block == Get(SplitFrontMatter(skill_dirs[d].md.lines))
            IN /\ entries[i].name = YamlLoad(block, "name").v
               /\ entries[i].description = YamlLoad(block, "description").v
               /\ entries[i].tier = LStripChar(d[Len(d) - 1], ".")

\* an index of three skills, of .curated and of .experimental
C18_Witness ==
    /\ index_pc = "done"
    /\ Len(entries) = 3
    /\ entries[1].tier = <<"c", "u", "r", "a", "t", "e", "d">>
    /\ entries[1].path = PathStr(CuratedA)
    /\ entries[3].tier = Tail(EXPERIMENTAL)
    /\ entries[2].name # entries[3].name

\* what the validator's validate_metadata makes of the scaffold
ScaffoldMeta ==
    validate_metadata(Get(created).md, Get(created).skill_dir, NoSeen, yaml_installed)

\* C19: for every request that new_skill accepts, the SKILL.md it writes
\* into the directory named after the skill is parsed by the validator to
\* the requested name and the normalized description, and validate_metadata
\* records no error
C19_RoundTrip ==
    ~IsNone(created) =>
        /\ ScaffoldMeta.name = Some(Get(req).name)
        /\ ScaffoldMeta.desc = Some(Get(req).description)
        /\ \A i \in 1..Len(ScaffoldMeta.issues) : ScaffoldMeta.issues[i].level # "error"

\* the first line of the descriptor of report k that is not empty is "---"
StartsWithDelimiter(k) ==
    LET lines == ContentAt(k).md.lines
        filled == {i \in 1..Len(lines) : lines[i].k # "blank"}
    IN /\ filled # {}
       /\ lines[CHOOSE i \in filled : \A j \in filled : i <= j].k = "delim"

StartLineErrors(k) ==
    {i \in 1..Len(IssuesAt(k)) :
        IssuesAt(k)[i].message = <<"missing YAML frontmatter start line '---'">>}

\* C20: the error about the missing start line of the front matter is
\* recorded exactly for the descriptors whose first non-empty line is not
\* "---" (or that have no non-empty line); empty lines before the opening
\* "---" do not matter
C20_FirstNonEmptyLine ==
    \A k \in Processed : (StartLineErrors(k) = {}) = StartsWithDelimiter(k)

\* the issues of report k that are about the directories references/ and
\* assets/: those at the directory of the skill or at one of the two
DirectoryIssues(k) ==
    {i \in 1..Len(IssuesAt(k)) :
        IssuesAt(k)[i].path \in {PathStr(todo[k]),
                                 PathStr(Append(todo[k], REFERENCES)),
                                 PathStr(Append(todo[k], ASSETS))}}

DirectoryIssue(k, path, message) ==
    {i \in DirectoryIssues(k) :
        IssuesAt(k)[i] = [level |-> "warning", path |-> PathStr(path),
                          message |-> <<message>>]}

\* C21: the issues about references/ and assets/ are warnings only: one
\* when references/ is absent, one when it is empty, one when assets/ exists
\* and is empty, and none for an absent assets/ or a directory with entries
C21_Directories ==
    \A k \in Processed :
        /\ \A i \in DirectoryIssues(k) : IssuesAt(k)[i].level = "warning"
        /\ Count(DirectoryIssue(k, todo[k],
                     "missing references/ directory (recommended)"),
                 ContentAt(k).refs = "absent")
        /\ Count(DirectoryIssue(k, Append(todo[k], REFERENCES),
                     "references/ is empty (add README.md at least)"),
                 ContentAt(k).refs = "empty")
        /\ Count(DirectoryIssue(k, Append(todo[k], ASSETS),
                     "assets/ is empty (ok, but usually include README.md)"),
                 ContentAt(k).assets = "empty")
        /\ Cardinality(DirectoryIssues(k)) =
               (IF ContentAt(k).refs \in {"absent", "empty"} THEN 1 ELSE 0)
               + (IF ContentAt(k).assets = "empty" THEN 1 ELSE 0)

\* a skill with an empty references/ and an empty assets/ has two
\* warnings, and one with a filled references/ and no assets/ has none
C21_Witness ==
    /\ pc = "done"
    /\ \E k \in Processed :
        /\ ContentAt(k).refs = "empty"
        /\ ContentAt(k).assets = "empty"
        /\ Cardinality(DirectoryIssues(k)) = 2

\* the orders in which the directories of a set can be processed
Orders(S) ==
    {order \in [1..Cardinality(S) -> S] :
        \A i, j \in 1..Cardinality(S) : order[i] = order[j] => i = j}

\* the issues other than the duplicate-name errors
RECURSIVE NonDuplicate(_)
NonDuplicate(issues) ==
    IF issues = <<>> THEN <<>>
    ELSE (IF IsDuplicateIssue(Head(issues)) THEN <<>> ELSE <<Head(issues)>>)
         \o NonDuplicate(Tail(issues))

RECURSIVE DuplicateCount(_)
DuplicateCount(list) ==
    IF list = <<>> THEN 0
    ELSE (Len(Head(list).issues) - Len(NonDuplicate(Head(list).issues)))
         + DuplicateCount(Tail(list))

\* for each declared name, one fewer than the number of skills declaring it
ExpectedDuplicates ==
    Cardinality({k \in Processed : ~IsNone(reports[k].name)})
    - Cardinality({reports[k].name : k \in Processed} \ {None})

\* the run of validate_skill_dir over the directories in the given order
RunInOrder(order) ==
    RunFrom(skill_dirs, order, NoSeen, test_files, yaml_installed, ns.mode, <<>>)

\* the run over the tree that holds directory d only
RunAlone(d) ==
    RunFrom([p \in {d} |-> skill_dirs[d]], <<d>>, NoSeen, test_files,
            yaml_installed, ns.mode, <<>>)

\* C22: only the duplicate-name errors couple the skills: in every order of
\* processing the tree of a finished run, each skill gets the issues of the
\* run but for the duplicate-name errors, which are also the issues it gets
\* alone in the tree; the number of duplicate-name errors is, for each
\* declared name, one fewer than the skills declaring it, and the errors,
\* the warnings and ok of the summary are those of the run
C22_OrderIndependent ==
    Emitted =>
        /\ \A k \in Processed :
            NonDuplicate(RunAlone(todo[k]).reports[1].issues) = NonDuplicate(IssuesAt(k))
        /\ \A order \in Orders(iter_skill_dirs(skill_dirs)) :
            LET run == RunInOrder(order)
                total == Summary(run.reports, ns)
            IN /\ ~run.raised
               /\ Len(run.reports) = Len(reports)
               /\ \A i \in 1..Len(order) : \A k \in Processed :
                    todo[k] = order[i] =>
                        NonDuplicate(run.reports[i].issues) = NonDuplicate(IssuesAt(k))
               /\ DuplicateCount(run.reports) = ExpectedDuplicates
               /\ total.errors = Get(summary).errors
               /\ total.warnings = Get(summary).warnings
               /\ total.ok = Get(summary).ok

\* a finished run over three skills of which two declare one name, the
\* second of them in a directory of that name: processed in the reverse
\* order, the duplicate-name error is recorded for the other skill
C22_Witness ==
    /\ Emitted
    /\ Len(reports) = 3
    /\ ExpectedDuplicates = 1
    /\ \E order \in Orders(iter_skill_dirs(skill_dirs)) :
        \E i \in 1..3 : \E k \in Processed :
            /\ todo[k] = order[i]
            /\ RunInOrder(order).reports[i].issues # IssuesAt(k)

\* the script of the given kind has done the run that validate_exec_mode
\* makes with --json --cwd <root>
DryRunDone(kinds) ==
    /\ ~IsNone(completed)
    /\ Get(entry_script).kind \in kinds
    /\ Get(script_argv) = [help |-> FALSE, json |-> TRUE, apply |-> FALSE,
                           cwd |-> "root"]

\* the path of the script that ran
RanEntry ==
    skills_root
    \o <<(IF Get(entry_script).kind = "git-status" THEN CURATED ELSE EXPERIMENTAL),
         Get(entry_script).skill, SCRIPTS, RUN_PY>>

\* the process printed one JSON object with ok, summary and changed of the
\* right types and changed false, and exited 0 with ok true or 3 with ok
\* false
HonoursContract(proc) ==
    /\ proc.stdout.kind = "object"
    /\ \A i \in 1..Len(RequiredKeys) :
        /\ RequiredKeys[i].key \in DOMAIN proc.stdout.obj
        /\ proc.stdout.obj[RequiredKeys[i].key].t = RequiredKeys[i].typ
    /\ proc.stdout.obj["changed"] = JBool(FALSE)
    /\ \/ proc.returncode = 0 /\ proc.stdout.obj["ok"] = JBool(TRUE)
       \/ proc.returncode = EXIT_PRECONDITION /\ proc.stdout.obj["ok"] = JBool(FALSE)

\* C23: in every working directory the --json --cwd <root> run of the two
\* scripts of the repository honours the script contract, and
\* validate_exec_mode records no issue for it
C23_BundledScripts ==
    DryRunDone({"git-status", "detect-build-system"}) =>
        /\ HonoursContract(Get(completed))
        /\ JsonIssues(RanEntry, Get(completed)) = <<>>

\* C24: the stub that new_skill writes exits 0 on --help; with --json it
\* prints one JSON object with ok, summary and changed, changed being false
\* with and without --apply, and exits 0 with ok true when --cwd exists and
\* 3 with ok false when it does not
C24_StubContract ==
    ~IsNone(completed) /\ Get(entry_script).kind = "stub" =>
        LET proc == Get(completed)
            args == Get(script_argv)
        IN /\ args.help => proc.returncode = 0
           /\ ~args.help /\ args.json =>
                /\ HonoursContract(proc)
                /\ proc.returncode = IF args.cwd = "root" THEN 0 ELSE EXIT_PRECONDITION

\* the validator, with PyYAML, extracts a name and a description from the
\* descriptor of directory d and validate_metadata records no error
ValidatorReads(d) ==
    /\ skill_dirs[d].md.decodable
    /\ LET meta == validate_metadata(skill_dirs[d].md, d, NoSeen, yaml_installed)
       IN /\ ~IsNone(meta.name)
          /\ ~IsNone(meta.desc)
          /\ \A i \in 1..Len(meta.issues) : meta.issues[i].level # "error"

\* C25: load_meta succeeds on every descriptor from which the validator
\* extracts a name and a description without a metadata error, and its
\* entry has that name and that description
C25_SameFrontMatter ==
    /\ \A i \in 1..Len(entries) : \A d \in DOMAIN skill_dirs :
        entries[i].path = PathStr(d) /\ ValidatorReads(d) =>
            LET meta == validate_metadata(skill_dirs[d].md, d, NoSeen, yaml_installed)
            IN /\ entries[i].name = Get(meta.name)
               /\ entries[i].description = Get(meta.desc)
    /\ index_pc = "raised" => \E d \in NotLoaded : ~ValidatorReads(d)

\* the front matter of the descriptor of report k, when it has one
BlockAt(k) == Get(extract_frontmatter_text(ContentAt(k).md.lines).text)
HasBlock(k) == IsNone(extract_frontmatter_text(ContentAt(k).md.lines).error)

\* the block has a line "key: ..." that is not indented
TopLevel(block, key) ==
    \E i \in 1..Len(block) : block[i].k = "kv" /\ block[i].key = key

\* the block has a top-level line "key: value" with a value, plain or quoted
HasScalar(block, key) ==
    \E i \in 1..Len(block) :
        block[i].k = "kv" /\ block[i].key = key /\ Strip(RawValue(block[i])) # <<>>

\* C26: the parser used without PyYAML reads the top-level name and
\* description only: on a front matter that has both as single-line scalars
\* it returns the name and the description the YAML parser returns, whatever
\* the other lines are, and it returns an error exactly when the front matter
\* has no top-level name or no top-level description
C26_FallbackAgrees ==
    \A k \in Processed :
        HasBlock(k) =>
            LET yaml == parse_yaml_frontmatter(BlockAt(k))
                minimal == parse_minimal_frontmatter(BlockAt(k))
                used == IF yaml_installed THEN yaml ELSE minimal
            IN /\ reports[k].name = used.name
               /\ reports[k].description = used.desc
               /\ HasScalar(BlockAt(k), "name") /\ HasScalar(BlockAt(k), "description")
                  /\ IsNone(yaml.err) =>
                      minimal.name = yaml.name /\ minimal.desc = yaml.desc
               /\ ~IsNone(minimal.err) =
                      ~(TopLevel(BlockAt(k), "name")
                        /\ TopLevel(BlockAt(k), "description"))

\* C27: after generate_skill_tests has returned 0, every skill directory with
\* scripts/run.py has its companion test file test_<directory name with "-"
\* replaced by "_">.py in tests/skills, every file the generator wrote is the
\* companion of such a directory, and the validate_skills run that follows
\* records no issue for a missing test file
C27_GeneratedTests ==
    (gen_pc = "done" /\ gen_returned = Some(0)) =>
        /\ \A d \in iter_skill_dirs(skill_dirs) :
            skill_dirs[d].scripts = "run" => CompanionTest(PathName(d)) \in test_files
        /\ \A f \in Get(gen_locals).written :
            \E d \in iter_skill_dirs(skill_dirs) :
                /\ skill_dirs[d].scripts = "run"
                /\ f = CompanionTest(PathName(d))
        /\ \A k \in Processed : MissingTestIssues(k) = {}

\* the validator has reported on a hyphenated script-backed skill whose test
\* the generator wrote, and on a skill without run.py
C27_Witness ==
    /\ Emitted
    /\ gen_returned = Some(0)
    /\ Get(gen_locals).written = {TestHyphen}
    /\ Len(reports) = 2
    /\ \E k \in Processed :
        /\ reports[k].script_backed
        /\ PathName(todo[k]) = NameHyphen
    /\ \E k \in Processed : ~reports[k].script_backed

\* the issues of report k about scripts/ without run.py
ScriptsMissingIssues(k) ==
    {i \in 1..Len(IssuesAt(k)) :
        IssuesAt(k)[i].message = <<"scripts/ exists but scripts/run.py is missing">>}

\* C28: the report of a skill with scripts/ but without scripts/run.py has
\* exactly one issue for that, an error at scripts/, has script_backed false
\* and no issue for a missing test file, and no subprocess is run for the
\* skill; the report of a skill without scripts/ has no such issue, has
\* script_backed false and no missing-test issue, and nothing is run for it
C28_NoEntryScript ==
    \A k \in Processed :
        ContentAt(k).scripts \in {"norun", "absent"} =>
            /\ IF ContentAt(k).scripts = "norun"
               THEN /\ Cardinality(ScriptsMissingIssues(k)) = 1
                    /\ \A i \in ScriptsMissingIssues(k) :
                        /\ IssuesAt(k)[i].level = "error"
                        /\ IssuesAt(k)[i].path = PathStr(Append(todo[k], SCRIPTS))
               ELSE ScriptsMissingIssues(k) = {}
            /\ ~reports[k].script_backed
            /\ MissingTestIssues(k) = {}
            /\ \A i \in 1..Len(procs) : procs[i].script # todo[k] \o <<SCRIPTS, RUN_PY>>

\* an exec run has reported on a curated skill with scripts/ without run.py
\* and without a test file, and on a skill without scripts/
C28_Witness ==
    /\ Emitted
    /\ ns.mode = "exec"
    /\ \E k \in Processed :
        /\ ContentAt(k).scripts = "norun"
        /\ reports[k].tier = CURATED
        /\ test_filename_for_skill(PathName(todo[k])) \notin test_files
        /\ Cardinality(ScriptsMissingIssues(k)) = 1
    /\ \E k \in Processed :
        /\ ContentAt(k).scripts = "absent"
        /\ ScriptsMissingIssues(k) = {}

\* the issues of report k at scripts/run.py: those of validate_exec_mode
ExecModeIssues(k) == {i \in 1..Len(IssuesAt(k)) : IssuesAt(k)[i].path = EntryAt(k)}
ChangedTrueIssues(k) ==
    {i \in ExecModeIssues(k) :
        IssuesAt(k)[i].message = <<"dry-run (--apply not set) must not set changed=true">>}
UnexpectedCodeIssues(k) ==
    {i \in ExecModeIssues(k) :
        IssuesAt(k)[i].message[1] = "unexpected exit code in json run: "}
ExitZeroIssues(k) ==
    {i \in ExecModeIssues(k) : IssuesAt(k)[i].message = <<"exit=0 but ok!=true">>}
ExitThreeIssues(k) ==
    {i \in ExecModeIssues(k) : IssuesAt(k)[i].message = <<"exit=", "3", " but ok!=false">>}
ExitCodeIssues(k) ==
    UnexpectedCodeIssues(k) \cup ExitZeroIssues(k) \cup ExitThreeIssues(k)
\* the two runs of the script of report k honour the contract
HonouredAt(k) ==
    /\ HelpProcAt(k).returncode = 0
    /\ FirstFailingCheck(JsonProcAt(k).stdout) = <<>>
    /\ ~PrintsChanged(JsonProcAt(k).stdout)
    /\ \/ JsonProcAt(k).returncode = 0 /\ PrintsOk(JsonProcAt(k).stdout, TRUE)
       \/ JsonProcAt(k).returncode = 3 /\ PrintsOk(JsonProcAt(k).stdout, FALSE)

\* C29: in exec mode the report of a script-backed skill has at most three
\* issues of validate_exec_mode, all errors: at most one about --help, and
\* about --json either exactly one rejection of the stdout and nothing about
\* changed or the exit code, or at most one about changed = true and at most
\* one about the exit code (unexpected code, exit 0 without ok = true, exit 3
\* without ok = false); it has none exactly when --help exits 0 and the
\* --json run prints a valid object with changed = false and exits 0 with
\* ok = true or 3 with ok = false
C29_ExecIssues ==
    \A k \in ExecReports :
        /\ Cardinality(ExecModeIssues(k)) <= 3
        /\ \A i \in ExecModeIssues(k) : IssuesAt(k)[i].level = "error"
        /\ ExecModeIssues(k) =
               HelpFailures(k) \cup StdoutRejections(k) \cup ChangedTrueIssues(k)
               \cup ExitCodeIssues(k)
        /\ Cardinality(HelpFailures(k)) <= 1
        /\ IF StdoutRejections(k) # {}
           THEN /\ Cardinality(StdoutRejections(k)) = 1
                /\ ChangedTrueIssues(k) = {}
                /\ ExitCodeIssues(k) = {}
           ELSE /\ Cardinality(ChangedTrueIssues(k)) <= 1
                /\ Cardinality(ExitCodeIssues(k)) <= 1
        /\ (ExecModeIssues(k) = {}) <=> HonouredAt(k)

\* a script whose --help exits 1 and whose --json run prints changed = true
\* and exits 1 has left three issues, next to a script that left none
C29_Witness ==
    /\ Emitted
    /\ \E k \in ExecReports :
        /\ Cardinality(HelpFailures(k)) = 1
        /\ Cardinality(ChangedTrueIssues(k)) = 1
        /\ Cardinality(UnexpectedCodeIssues(k)) = 1
        /\ Cardinality(ExecModeIssues(k)) = 3
    /\ \E k \in ExecReports : HonouredAt(k) /\ ExecModeIssues(k) = {}

\* the contents a reader of path may see in full
CompleteContents ==
    {writers[w].content : w \in Calls_atomic_write}
    \cup (IF IsNone(before) THEN {} ELSE {Get(before)})
AllReplaced == \A w \in Calls_atomic_write : writers[w].pc = "done"

\* C30: while two calls of atomic_write(path, content) run, path is absent
\* (only when it was absent before and no call has finished) or names a file
\* that holds the previous content or the complete content of one call; the
\* reader finds path absent only in that case, the file it holds open is
\* such a complete file and a read of it to the end gives that content; and
\* once both calls have returned, path holds the whole content of one of them
C30_AtomicWrite ==
    /\ IF OUTPUT \in DOMAIN names
       THEN inodes[names[OUTPUT]] \in CompleteContents
       ELSE /\ IsNone(before)
            /\ \A w \in Calls_atomic_write : writers[w].pc # "done"
    /\ reader.pc = "absent" => IsNone(before)
    /\ reader.pc \in {"open", "eof"} => inodes[reader.ino] \in CompleteContents
    /\ reader.pc = "eof" => reader.seen = inodes[reader.ino]
    /\ AllReplaced =>
        /\ OUTPUT \in DOMAIN names
        /\ \E w \in Calls_atomic_write : inodes[names[OUTPUT]] = writers[w].content

\* both calls have returned with different contents, and the reader, which
\* opened path between the two replacements, has read the whole content of
\* the call that was replaced first
C30_Witness ==
    /\ AllReplaced
    /\ writers[1].content # writers[2].content
    /\ ~IsNone(before)
    /\ reader.pc = "eof"
    /\ reader.seen \in {writers[w].content : w \in Calls_atomic_write}
    /\ reader.seen # inodes[names[OUTPUT]]

====
